---- MODULE Spec2Model ----
(***************************************************************************)
(* Model of the inkkeys python controller: the Device session             *)
(* (inkkeys/device.py) -- line framing, the read-path lock, the handshake, *)
(* the display refresh exchange and the key-event dispatcher -- and the    *)
(* orchestrator (controller.py) -- module start-up, the reconnect loop,    *)
(* try_using_port and the work() tick loop with its mode selection.        *)
(*                                                                         *)
(* Text is modelled as sequences of one-character strings.  Time is        *)
(* counted in units of 0.1 s (the length of the exchanges' sleep) and      *)
(* passes only while an exchange sleeps; elapsed[t] is the value of        *)
(* time.time() - start in thread t's exchange.                             *)
(***************************************************************************)
EXTENDS Integers, Sequences, FiniteSets, TLC

(***************************************************************************)
(* Bounds of the model.                                                    *)
(***************************************************************************)
\* longest key-event line (in characters) the dispatcher is fed
MaxLineLen == 3
\* lines the accessory sends in one behaviour
MaxLines == 4
\* connection attempts of the reconnect loop that are explored
MaxAttempts == 2
\* ticks of the work() loop explored in one behaviour
MaxTicks == 2
\* operations each thread starts in the free-running thread specification
MaxOps == 2
\* largest timeout (in units of 0.1 s) a free-running caller passes to an exchange
MaxTimeout == 1
\* lines the accessory sends in the free-running thread specification
MaxThreadLines == 2
\* regions in the image buffer in the display specification
MaxImages == 2
\* the latest write of a send_image at which a write fault is tried
MaxFaultAt == 3
\* bytes the accessory sends in the specification of the line framing
MaxBytes == 5
\* lines the accessory sends in the specification of the dispatcher drain
MaxDrainLines == 3
\* largest len(data) in the specification of the chunked write
MaxPayload == 250
\* calls of fade_leds in one behaviour of the fade specification
MaxFades == 3
\* largest time since set_leds the fade specification looks at (units of 0.05 s)
MaxAge == 72
\* largest timeout (in units of 0.1 s) of an exchange in the free-running thread
\* specification
MaxThreadTimeout == 0

(***************************************************************************)
(* Program constants (time in units of 0.1 s).                             *)
(***************************************************************************)
\* time.sleep(0.1) of the exchanges' wait loops
SleepTicks == 1
\* request_info(3) as called by connect
ConnectTimeout == 30
\* update_display(timeout=5)
DisplayTimeout == 50

(***************************************************************************)
(* Characters and lines.                                                   *)
(***************************************************************************)
LF == "\n"
CR == "\r"
\* the value None of read_from_device, kept apart from every line
NoLine == <<"<None>">>

Digits == {"0", "1", "2", "3", "4", "5", "6", "7", "8", "9"}
DigitVal(c) ==
    CASE c = "0" -> 0 [] c = "1" -> 1 [] c = "2" -> 2 [] c = "3" -> 3
      [] c = "4" -> 4 [] c = "5" -> 5 [] c = "6" -> 6 [] c = "7" -> 7
      [] c = "8" -> 8 [] c = "9" -> 9

\* s[i:] of Python, i counted from 0
Slice(s, i) == IF i >= Len(s) THEN <<>> ELSE SubSeq(s, i + 1, Len(s))

\* str.isdecimal(): non-empty and made of decimal digits only
IsDecimal(s) == Len(s) > 0 /\ \A i \in 1..Len(s) : s[i] \in Digits

RECURSIVE DecVal(_)
DecVal(s) ==
    IF s = <<>> THEN 0
    ELSE DecVal(SubSeq(s, 1, Len(s) - 1)) * 10 + DigitVal(s[Len(s)])

\* int(s) accepts an optional sign followed by decimal digits
IntOk(s) ==
    \/ IsDecimal(s)
    \/ Len(s) > 1 /\ s[1] \in {"+", "-"} /\ IsDecimal(Slice(s, 1))
IntOf(s) ==
    IF IsDecimal(s) THEN DecVal(s)
    ELSE IF s[1] = "-" THEN 0 - DecVal(Slice(s, 1))
    ELSE DecVal(Slice(s, 1))

\* str.startswith
StartsWith(s, p) == Len(s) >= Len(p) /\ SubSeq(s, 1, Len(p)) = p

(***************************************************************************)
(* inkkeys/protocol.py is not among the source files: the values below     *)
(* follow the specification's protocol description (a one-character jog    *)
(* code followed by a signed integer, literal header / Done / ok lines).   *)
(***************************************************************************)
\* KeyCode.JOG.value
JOG == "R"
\* KeyCode.JOG_PRESS.value
JOG_PRESS == <<"1", "p">>
\* KeyCode.JOG_CCW.value
JOG_CCW == <<"R", "-">>
\* KeyCode.SW4_PRESS.value
SW4_PRESS == <<"4", "p">>
\* KeyCode.SW8_PRESS.value
SW8_PRESS == <<"8", "p">>
\* the key codes a callback can be registered for (register_callback's key.value)
KeyCodes == {<<JOG>>, JOG_PRESS, JOG_CCW, SW4_PRESS, SW8_PRESS}

\* literal lines of the text protocol tested by device.py
HeaderLine == <<"I", "n", "k", "k", "e", "y", "s">>
DoneLine == <<"D", "o", "n", "e">>
OkLine == <<"o", "k">>
PfxTest == <<"T", "E", "S", "T", " ">>
PfxNLed == <<"N", "_", "L", "E", "D", " ">>
PfxDispW == <<"D", "I", "S", "P", "_", "W", " ">>
PfxDispH == <<"D", "I", "S", "P", "_", "H", " ">>
PfxRot == <<"R", "O", "T", "_", "C", "I", "R", "C", "L", "E", "_", "S", "T", "E", "P", "S", " ">>

\* the commands written to the link, by their command code and argument:
\* CommandCode.INFO, CommandCode.REFRESH with a RefreshTypeCode,
\* CommandCode.DISPLAY with a region, and one write of n bitmap bytes of a
\* region starting at byte from
InfoCmd == [cmd |-> "INFO", arg |-> "none"]
Refresh(type) == [cmd |-> "REFRESH", arg |-> type]
DisplayCmd(region) == [cmd |-> "DISPLAY", arg |-> region]
Bitmap(region, from, n) == [cmd |-> "binary", arg |-> region, from |-> from, n |-> n]

Threads == {"main", "aux"}

VARIABLES
    \* ---- Device fields (device.py __init__) ----
    ser,                    \* the open link (a port name) or "None"
    inbuffer,               \* the partial-line buffer (characters)
    lock,                   \* awaiting_response_lock: "free" or the holding thread
    testmode, num_of_leds, display_width, display_height, rotation_circle_steps,
    image_buffer,           \* regions sent since the last resend
    callbacks,              \* key code -> handler
    led_state,              \* the frame of the last set_leds, or "None"
    led_age,                \* time.time() - led_set_time, in units of 0.05 s
    led_sent,               \* LED frames commanded since (and with) the last set_leds
    \* ---- the link ----
    wire,                   \* bytes waiting in the serial input (ser.in_waiting)
    owed,                   \* refresh commands the accessory has not acknowledged
    \* ---- per thread: position inside a Device method and its locals ----
    tpc, op, line, elapsed, timeout, full_refresh, buffer_data, ret, exc,
    sent,                   \* commands the thread's exchange has written
    polled,                 \* the value the last Device.poll read
    \* ---- handler calls made by the last Device.poll ----
    called,
    \* ---- orchestrator (controller.py) ----
    mpc,                    \* position of the main program
    ctx,                    \* who entered work(): "module" (line 152) or "port"
    ports, portIdx,         \* matching_ports and the for loop's position
    modes,                  \* the ordered rule list
    current_mode, poll_interval, active_window, processes, checkedOnce,
    \* ---- bookkeeping of the exploration and of the claims ----
    rx,                     \* lines the accessory sent on this connection
    returned,               \* lines read_from_device has returned
    payload,                \* len(data) of the last send_binary_to_device studied
    activated,              \* the mode activated last and not deactivated since, or "None"
    late,                   \* a line arrived when the handshake budget was used up
    slept,                  \* sleeps of the running exchange, per thread
    connectOk,              \* connect returned True for the link in use
    lastConnect,            \* outcome of the last connect: "none", "True", "timeout", "testmode", "error"
    nAttempts, nTicks, nOps, nLines,
    sel                     \* record of the last mode check

capVars == <<testmode, num_of_leds, display_width, display_height, rotation_circle_steps>>
linkVars == <<ser, wire, inbuffer>>
thrVars == <<lock, tpc, op, line, elapsed, timeout, full_refresh, buffer_data, ret, exc,
             slept, polled, sent>>
ledVars == <<led_state, led_age, led_sent>>
devVars == <<image_buffer, callbacks, called>>
orchVars == <<mpc, ctx, ports, portIdx, modes, current_mode, poll_interval,
              active_window, processes, checkedOnce>>
envVars == <<rx, returned, payload, activated, late, connectOk, lastConnect, nAttempts, nTicks, nOps, nLines, sel>>
vars == <<capVars, linkVars, thrVars, devVars, ledVars, owed, orchVars, envVars>>

(***************************************************************************)
(* read_from_device (device.py 78-88).                                     *)
(***************************************************************************)
\* bytes.decode('ISO-8859-16'): one character per byte; the ASCII range maps
\* to itself, byte 0xA4 to the euro sign
DecodeChar(b) == IF b = "0xA4" THEN "EUR" ELSE b
Decode(bytes) == [i \in 1..Len(bytes) |-> DecodeChar(bytes[i])]

\* str.replace('\r', '')
RECURSIVE RemoveCR(_)
RemoveCR(s) ==
    IF s = <<>> THEN <<>>
    ELSE IF Head(s) = CR THEN RemoveCR(Tail(s))
    ELSE <<Head(s)>> \o RemoveCR(Tail(s))

\* inbuffer after "self.inbuffer += self.ser.read(...)..." (lines 79-80)
ReadBuf == IF Len(wire) > 0 THEN inbuffer \o RemoveCR(Decode(wire)) ELSE inbuffer

HasLF(s) == \E i \in 1..Len(s) : s[i] = LF
FirstLF(s) == CHOOSE i \in 1..Len(s) : s[i] = LF /\ \A j \in 1..(i - 1) : s[j] # LF

\* the value read_from_device returns: chunks[0] of split("\n", 1), or None
ReadCmd == IF HasLF(ReadBuf) THEN SubSeq(ReadBuf, 1, FirstLF(ReadBuf) - 1) ELSE NoLine
\* a buffer that keeps only what follows the last line feed
ReadRestAfterLast ==
    IF HasLF(ReadBuf)
    THEN LET last == CHOOSE i \in 1..Len(ReadBuf) :
                        ReadBuf[i] = LF /\ \A j \in (i + 1)..Len(ReadBuf) : ReadBuf[j] # LF
         IN  SubSeq(ReadBuf, last + 1, Len(ReadBuf))
    ELSE ReadBuf
\* a buffer that forgets the partial line when no line is complete
ReadRestLossy ==
    IF HasLF(ReadBuf) THEN SubSeq(ReadBuf, FirstLF(ReadBuf) + 1, Len(ReadBuf))
    ELSE <<>>
\* the buffer it leaves: chunks[1], or everything when no line is complete
ReadRest ==
    IF HasLF(ReadBuf) THEN SubSeq(ReadBuf, FirstLF(ReadBuf) + 1, Len(ReadBuf))
    ELSE ReadBuf

\* thread t's "line = self.read_from_device()"
read_from_device(t) ==
    /\ line' = [line EXCEPT ![t] = ReadCmd]
    /\ inbuffer' = ReadRest
    /\ wire' = <<>>

(***************************************************************************)
(* The read-path lock and the control flow of a Device method.             *)
(***************************************************************************)
\* positions at which a thread is inside "with self.awaiting_response_lock"
\* of an exchange (request_info, update_display)
ExchangePcs == {"ri_send", "ri_hdr", "ri_info", "ud_send", "ud_wait1", "ud_wait2"}
InExchange(t) == tpc[t] \in ExchangePcs
\* position at which Device.poll is inside its "with" block
InDrain(t) == tpc[t] = "pl_read"

\* Lock.acquire() of the "with" statement succeeds only on a free lock
CanAcquireAlways(t) == TRUE
CanAcquire(t) == lock = "free"

\* entering "with self.awaiting_response_lock"
Acquire(t, l) ==
    /\ CanAcquire(t)
    /\ lock' = t
    /\ tpc' = [tpc EXCEPT ![t] = l]
    /\ UNCHANGED <<op, polled, line, elapsed, slept, timeout, full_refresh, buffer_data,
                   ret, exc, sent>>

\* the method ends: its locals and arguments end with it, and leaving the
\* "with" block releases the lock
LeaveHolding(t, v, e) ==
    /\ tpc' = [tpc EXCEPT ![t] = "ret"]
    /\ ret' = [ret EXCEPT ![t] = v]
    /\ exc' = [exc EXCEPT ![t] = e]
    /\ lock' = IF lock = t /\ v # "raise" THEN "free" ELSE lock
    /\ line' = [line EXCEPT ![t] = NoLine]
    /\ elapsed' = [elapsed EXCEPT ![t] = 0]
    /\ slept' = [slept EXCEPT ![t] = 0]
    /\ timeout' = [timeout EXCEPT ![t] = 0]
    /\ full_refresh' = [full_refresh EXCEPT ![t] = TRUE]
    /\ buffer_data' = [buffer_data EXCEPT ![t] = FALSE]
    /\ UNCHANGED <<op, polled, sent>>
Leave(t, v, e) ==
    /\ tpc' = [tpc EXCEPT ![t] = "ret"]
    /\ ret' = [ret EXCEPT ![t] = v]
    /\ exc' = [exc EXCEPT ![t] = e]
    /\ lock' = IF lock = t THEN "free" ELSE lock
    /\ line' = [line EXCEPT ![t] = NoLine]
    /\ elapsed' = [elapsed EXCEPT ![t] = 0]
    /\ slept' = [slept EXCEPT ![t] = 0]
    /\ timeout' = [timeout EXCEPT ![t] = 0]
    /\ full_refresh' = [full_refresh EXCEPT ![t] = TRUE]
    /\ buffer_data' = [buffer_data EXCEPT ![t] = FALSE]
    /\ UNCHANGED <<op, polled, sent>>
Return(t, v) == Leave(t, v, "none")
Raise(t, e) == Leave(t, "raise", e)

\* "start = time.time()", the commands cmds written to the link and a read,
\* going on at position l
StartAndRead(t, l, cmds) ==
    /\ tpc' = [tpc EXCEPT ![t] = l]
    /\ line' = [line EXCEPT ![t] = ReadCmd]
    /\ elapsed' = [elapsed EXCEPT ![t] = 0]
    /\ sent' = [sent EXCEPT ![t] = @ \o cmds]
    /\ UNCHANGED <<op, polled, lock, slept, timeout, full_refresh, buffer_data, ret, exc>>

\* a read, going on at position l
ReadAndRestart(t, l) ==
    /\ tpc' = [tpc EXCEPT ![t] = l]
    /\ line' = [line EXCEPT ![t] = ReadCmd]
    /\ elapsed' = [elapsed EXCEPT ![t] = 0]
    /\ UNCHANGED <<op, polled, lock, slept, timeout, full_refresh, buffer_data, ret, exc, sent>>
ReadAndGo(t, l) ==
    /\ tpc' = [tpc EXCEPT ![t] = l]
    /\ line' = [line EXCEPT ![t] = ReadCmd]
    /\ UNCHANGED <<op, polled, lock, elapsed, slept, timeout, full_refresh, buffer_data,
                   ret, exc, sent>>

\* "time.sleep(0.1)" followed by a read: time passes for every exchange in
\* progress
SleepAndRead(t) ==
    /\ line' = [line EXCEPT ![t] = ReadCmd]
    /\ elapsed' = [u \in Threads |->
                     IF InExchange(u) THEN elapsed[u] + SleepTicks ELSE elapsed[u]]
    /\ slept' = [u \in Threads |->
                     IF InExchange(u) THEN slept[u] + SleepTicks ELSE slept[u]]
    /\ UNCHANGED <<op, polled, lock, tpc, timeout, full_refresh, buffer_data, ret, exc, sent>>

\* what read_from_device does to the link
ReadLink == inbuffer' = ReadRest /\ wire' = <<>>
NoRead == UNCHANGED <<wire, inbuffer>>

\* "time.time() - start > timeout"
TimedOutOnSilence(t) == elapsed[t] > timeout[t] /\ line[t] = NoLine
TimedOut(t) == elapsed[t] > timeout[t]

(***************************************************************************)
(* Device.request_info (device.py 119-162).                                *)
(***************************************************************************)
RiAcquire(t) ==
    /\ tpc[t] = "ri_lock"
    /\ Acquire(t, "ri_send")
    /\ UNCHANGED <<capVars, ledVars, owed, linkVars, devVars, orchVars, envVars>>

\* lines 122-124: start, send the info request, first read
RiSend(t) ==
    /\ tpc[t] = "ri_send"
    /\ IF ser = "None"
       THEN Raise(t, "AttributeError") /\ NoRead
       ELSE StartAndRead(t, "ri_hdr", <<InfoCmd>>) /\ ReadLink
    /\ UNCHANGED <<ser, capVars, ledVars, owed, devVars, orchVars, envVars>>

\* the header test of line 125
IsHeaderAny(l) == l # NoLine
IsHeader(l) == l = HeaderLine

\* lines 125-135: skip everything up to the header line
RiHeader(t) ==
    /\ tpc[t] = "ri_hdr"
    /\ IF IsHeader(line[t]) THEN ReadAndGo(t, "ri_info") /\ ReadLink
       ELSE IF TimedOut(t) THEN Return(t, "False") /\ NoRead
       ELSE IF line[t] = NoLine THEN SleepAndRead(t) /\ ReadLink
       ELSE ReadAndGo(t, "ri_hdr") /\ ReadLink
    /\ UNCHANGED <<ser, capVars, ledVars, owed, devVars, orchVars, envVars>>

\* lines 143-154: what one info line does to the Capabilities;
\* "IndexError" / "ValueError" when line[5] or int() raises
InfoKey(l) ==
    IF StartsWith(l, PfxTest) THEN "TEST"
    ELSE IF StartsWith(l, PfxNLed) THEN "N_LED"
    ELSE IF StartsWith(l, PfxDispW) THEN "DISP_W"
    ELSE IF StartsWith(l, PfxDispH) THEN "DISP_H"
    ELSE IF StartsWith(l, PfxRot) THEN "ROT_CIRCLE_STEPS"
    ELSE "skip"
InfoArg(l) ==
    CASE InfoKey(l) = "TEST" -> Slice(l, 5)
      [] InfoKey(l) = "N_LED" -> Slice(l, 6)
      [] InfoKey(l) = "DISP_W" -> Slice(l, 7)
      [] InfoKey(l) = "DISP_H" -> Slice(l, 7)
      [] InfoKey(l) = "ROT_CIRCLE_STEPS" -> Slice(l, 17)
      [] OTHER -> <<>>
InfoError(l) ==
    IF InfoKey(l) = "skip" THEN "none"
    ELSE IF InfoKey(l) = "TEST" THEN (IF InfoArg(l) = <<>> THEN "IndexError" ELSE "none")
    ELSE IF IntOk(InfoArg(l)) THEN "none" ELSE "ValueError"

ApplyInfo(l) ==
    /\ testmode' = IF InfoKey(l) = "TEST" THEN InfoArg(l)[1] # "0" ELSE testmode
    /\ num_of_leds' = IF InfoKey(l) = "N_LED" THEN IntOf(InfoArg(l)) ELSE num_of_leds
    /\ display_width' = IF InfoKey(l) = "DISP_W" THEN IntOf(InfoArg(l)) ELSE display_width
    /\ display_height' = IF InfoKey(l) = "DISP_H" THEN IntOf(InfoArg(l)) ELSE display_height
    /\ rotation_circle_steps' =
           IF InfoKey(l) = "ROT_CIRCLE_STEPS" THEN IntOf(InfoArg(l))
           ELSE rotation_circle_steps

\* lines 136-162: read the info lines up to "Done"
RiInfo(t) ==
    /\ tpc[t] = "ri_info"
    /\ IF line[t] = DoneLine THEN Return(t, "True") /\ NoRead /\ UNCHANGED capVars
       ELSE IF TimedOut(t) THEN Return(t, "False") /\ NoRead /\ UNCHANGED capVars
       ELSE IF line[t] = NoLine THEN SleepAndRead(t) /\ ReadLink /\ UNCHANGED capVars
       ELSE IF InfoError(line[t]) # "none"
       THEN Raise(t, InfoError(line[t])) /\ NoRead /\ UNCHANGED capVars
       ELSE ReadAndGo(t, "ri_info") /\ ReadLink /\ ApplyInfo(line[t])
    /\ UNCHANGED <<ser, devVars, ledVars, owed, orchVars, envVars>>

(***************************************************************************)
(* Device.update_display (device.py 199-235) with resend_image_data        *)
(* (177-191).                                                              *)
(***************************************************************************)
UdAcquire(t) ==
    /\ tpc[t] = "ud_lock"
    /\ Acquire(t, "ud_send")
    /\ UNCHANGED <<capVars, ledVars, owed, linkVars, devVars, orchVars, envVars>>

\* lines 207-209: start, send the refresh command, first read
UdSend(t) ==
    /\ tpc[t] = "ud_send"
    /\ IF ser = "None"
       THEN Raise(t, "AttributeError") /\ NoRead /\ UNCHANGED owed
       ELSE /\ StartAndRead(t, "ud_wait1",
                            <<Refresh(IF full_refresh[t] THEN "FULL" ELSE "PARTIAL")>>)
            /\ ReadLink
            /\ owed' = owed + 1
    /\ UNCHANGED <<ser, capVars, ledVars, devVars, orchVars, envVars>>

\* the number of bytes of a region's 1-bit bitmap (image.convert('1')
\* .tobytes()): one that ends inside a chunk, one that is exactly a chunk
ImageBytes(region) == IF region = "title" THEN 250 ELSE 100
CHUNK_SIZE == 100
\* a loop that writes only the chunks the data fills
RECURSIVE WriteWholeChunks(_, _, _)
WriteWholeChunks(data, len, startIx) ==
    IF startIx + CHUNK_SIZE <= len
    THEN <<Bitmap(data, startIx, CHUNK_SIZE)>>
         \o WriteWholeChunks(data, len, startIx + CHUNK_SIZE)
    ELSE <<>>
\* the loop of send_binary_to_device (lines 65-70) on data of len bytes: the
\* writes of data[startIx:endIx], chunk by chunk
RECURSIVE WriteChunks(_, _, _)
WriteChunks(data, len, startIx) ==
    IF startIx < len
    THEN <<Bitmap(data, startIx,
                  IF len - startIx < CHUNK_SIZE THEN len - startIx ELSE CHUNK_SIZE)>>
         \o WriteChunks(data, len, startIx + CHUNK_SIZE)
    ELSE <<>>
\* send_binary_to_device on the bitmap of a region
send_binary_to_device(region, startIx) == WriteChunks(region, ImageBytes(region), startIx)

\* send_image (lines 171-174): the display header, then the bitmap
SendImageNoHeader(region) == send_binary_to_device(region, 0)
send_image(region) == <<DisplayCmd(region)>> \o send_binary_to_device(region, 0)

\* resend_image_data (lines 183-190): the commands written for the buffered
\* regions, each a display header followed by its bitmap
RECURSIVE ResendReversed(_)
ResendReversed(buf) ==
    IF buf = <<>> THEN <<>>
    ELSE ResendReversed(Tail(buf))
         \o <<DisplayCmd(Head(buf))>> \o send_binary_to_device(Head(buf), 0)
RECURSIVE resend_image_data(_)
resend_image_data(buf) ==
    IF buf = <<>> THEN <<>>
    ELSE <<DisplayCmd(Head(buf))>> \o send_binary_to_device(Head(buf), 0)
         \o resend_image_data(Tail(buf))

\* the test of lines 210 and 226: the line is the literal "ok"
IsOkPrefix(l) == StartsWith(l, OkLine)
IsOk(l) == l = OkLine

\* lines 210-225: wait for the first "ok"; with buffer_data resend the image
\* buffer (which empties it), send refresh-off, restart the timer, read again
UdWait1(t) ==
    /\ tpc[t] = "ud_wait1"
    /\ IF IsOk(line[t])
       THEN IF buffer_data[t]
            THEN /\ StartAndRead(t, "ud_wait2",
                                 resend_image_data(image_buffer) \o <<Refresh("OFF")>>)
                 /\ ReadLink
                 /\ image_buffer' = <<>>
                 /\ owed' = owed + 1
            ELSE Return(t, "None") /\ NoRead /\ UNCHANGED <<image_buffer, owed>>
       ELSE IF TimedOut(t) THEN Return(t, "False") /\ NoRead /\ UNCHANGED <<image_buffer, owed>>
       ELSE IF line[t] = NoLine
       THEN SleepAndRead(t) /\ ReadLink /\ UNCHANGED <<image_buffer, owed>>
       ELSE ReadAndGo(t, "ud_wait1") /\ ReadLink /\ UNCHANGED <<image_buffer, owed>>
    /\ UNCHANGED <<ser, callbacks, called, capVars, ledVars, orchVars, envVars>>

\* lines 226-235: wait for the second "ok"
UdWait2(t) ==
    /\ tpc[t] = "ud_wait2"
    /\ IF IsOk(line[t]) THEN Return(t, "None") /\ NoRead
       ELSE IF TimedOut(t) THEN Return(t, "False") /\ NoRead
       ELSE IF line[t] = NoLine THEN SleepAndRead(t) /\ ReadLink
       ELSE ReadAndGo(t, "ud_wait2") /\ ReadLink
    /\ UNCHANGED <<ser, capVars, ledVars, owed, devVars, orchVars, envVars>>

(***************************************************************************)
(* Device.poll (device.py 90-98).                                          *)
(***************************************************************************)
\* line 94: "jog" when the line is the jog code followed by digits or by '-'
\* and digits, "discrete" otherwise; "IndexError" when input[0] or input[1]
\* does not exist
PollClassify(input) ==
    IF Len(input) = 0 THEN "IndexError"
    ELSE IF input[1] # JOG THEN "discrete"
    ELSE IF IsDecimal(Slice(input, 1)) THEN "jog"
    ELSE IF Len(input) < 2 THEN "IndexError"
    ELSE IF input[2] = "-" /\ IsDecimal(Slice(input, 2)) THEN "jog"
    ELSE "discrete"

\* lines 95-98: the handler calls of one dispatched line
PollCallsAnyPrefix(input, cbs) ==
    LET hit == {c \in DOMAIN cbs : StartsWith(input, c)}
    IN  IF hit = {} THEN <<>>
        ELSE LET c == CHOOSE x \in hit : TRUE
             IN  <<[code |-> c, handler |-> cbs[c], args |-> <<>>]>>
PollCalls(input, cbs) ==
    IF PollClassify(input) = "jog"
    THEN IF <<JOG>> \in DOMAIN cbs
         THEN <<[code |-> <<JOG>>, handler |-> cbs[<<JOG>>],
                 args |-> <<IntOf(Slice(input, 1))>>]>>
         ELSE <<>>
    ELSE IF PollClassify(input) = "discrete" /\ input \in DOMAIN cbs
    THEN <<[code |-> input, handler |-> cbs[input], args |-> <<>>]>>
    ELSE <<>>

\* the lock after the "with" block of Device.poll (lines 91-92) is left
StayInWith(t) == lock
LeaveWith(t) == IF lock = t THEN "free" ELSE lock

PollAcquire(t) ==
    /\ tpc[t] = "pl_lock"
    /\ Acquire(t, "pl_read")
    /\ called' = <<>>
    /\ UNCHANGED <<image_buffer, callbacks, capVars, ledVars, owed, linkVars, orchVars, envVars>>

\* lines 91-92: the drain, one read inside the "with" block, which is then left
PollRead(t) ==
    /\ tpc[t] = "pl_read"
    /\ IF ser = "None"
       THEN Raise(t, "AttributeError") /\ NoRead
       ELSE /\ tpc' = [tpc EXCEPT ![t] = "pl_dispatch"]
            /\ line' = [line EXCEPT ![t] = ReadCmd]
            /\ lock' = LeaveWith(t)
            /\ polled' = ReadCmd
            /\ UNCHANGED <<op, elapsed, slept, timeout, full_refresh, buffer_data, ret, exc, sent>>
            /\ ReadLink
    /\ UNCHANGED <<ser, capVars, ledVars, owed, devVars, orchVars, envVars>>

\* lines 93-98: classify the line and call the handler
PollDispatch(t) ==
    /\ tpc[t] = "pl_dispatch"
    /\ IF line[t] = NoLine THEN Return(t, "None") /\ UNCHANGED called
       ELSE IF PollClassify(line[t]) = "IndexError"
       THEN Raise(t, "IndexError") /\ UNCHANGED called
       ELSE Return(t, "None") /\ called' = PollCalls(line[t], callbacks)
    /\ UNCHANGED <<image_buffer, callbacks, capVars, ledVars, owed, linkVars, orchVars, envVars>>

\* one step of thread t inside a Device method
DeviceStep(t) ==
    \/ RiAcquire(t) \/ RiSend(t) \/ RiHeader(t) \/ RiInfo(t)
    \/ UdAcquire(t) \/ UdSend(t) \/ UdWait1(t) \/ UdWait2(t)
    \/ PollAcquire(t) \/ PollRead(t) \/ PollDispatch(t)

(***************************************************************************)
(* register_callback / clear_callback / clear_callbacks (device.py         *)
(* 100-108).                                                               *)
(***************************************************************************)
register_callback(cbs, cb, key) ==
    [c \in (DOMAIN cbs) \cup {key} |-> IF c = key THEN cb ELSE cbs[c]]
clear_callback(cbs, key) == [c \in (DOMAIN cbs) \ {key} |-> cbs[c]]
NoCallbacks == [c \in {} |-> "none"]

(***************************************************************************)
(* set_leds and fade_leds (device.py 330-351).  The time since the last    *)
(* set_leds, led_age, is counted in units of 0.05 s.                       *)
(***************************************************************************)
\* the 3.5 and the 0.5 of line 342, in units of 0.05 s
FadeEnd == 70
FadeLen == 10
\* p of line 342 as the numerator of a fraction over FadeLen
PNum(age) == FadeEnd - age
\* "p >= 1" (line 343) and "p <= 0" (line 345)
InHoldStrict(n) == n > FadeLen
InHold(n) == n >= FadeLen
Expired(n) == n <= 0

\* the masks 0xff0000, 0xff00 and 0xff as the weights of their lowest bit
UnitR == 65536
UnitG == 256
UnitB == 1
\* x & (0xff * unit) for a non-negative x
Masked(x, unit) == ((x \div unit) % 256) * unit
\* int(v * p) for a non-negative v
ScaleTrunc(v, n) == (v * n) \div FadeLen
\* line 349: one dimmed colour (the bitwise or of disjoint bytes is their sum)
DimColorUnmasked(i, n) == ScaleTrunc(i, n)
DimColor(i, n) ==
    Masked(ScaleTrunc(Masked(i, UnitR), n), UnitR)
      + Masked(ScaleTrunc(Masked(i, UnitG), n), UnitG)
      + Masked(ScaleTrunc(Masked(i, UnitB), n), UnitB)
Dimmed(frame, n) == [k \in 1..Len(frame) |-> DimColor(frame[k], n)]
\* line 347: "000000" for each of num_of_leds LEDs
Zeros(n) == [k \in 1..n |-> 0]

\* set_leds(leds), lines 334-337
set_leds(leds) ==
    /\ led_age' = 0
    /\ led_state' = leds
    /\ led_sent' = <<leds>>

\* fade_leds, lines 340-351
FadeOverwrites ==
    /\ IF led_state = "None" \/ InHold(PNum(led_age))
       THEN UNCHANGED <<led_state, led_sent>>
       ELSE IF Expired(PNum(led_age))
       THEN /\ led_state' = "None"
            /\ led_sent' = Append(led_sent, Zeros(num_of_leds))
       ELSE /\ led_sent' = Append(led_sent, Dimmed(led_state, PNum(led_age)))
            /\ led_state' = Dimmed(led_state, PNum(led_age))
    /\ UNCHANGED led_age
fade_leds ==
    /\ IF led_state = "None" \/ InHold(PNum(led_age))
       THEN UNCHANGED <<led_state, led_sent>>
       ELSE IF Expired(PNum(led_age))
       THEN /\ led_state' = "None"
            /\ led_sent' = Append(led_sent, Zeros(num_of_leds))
       ELSE /\ led_sent' = Append(led_sent, Dimmed(led_state, PNum(led_age)))
            /\ UNCHANGED led_state
    /\ UNCHANGED led_age

(***************************************************************************)
(* The state after Device() (device.py 16-33) and before main() runs.      *)
(***************************************************************************)
DeviceInit ==
    /\ inbuffer = <<>>
    /\ lock = "free"
    /\ testmode = FALSE
    /\ num_of_leds = 0
    /\ display_width = 0
    /\ display_height = 0
    /\ rotation_circle_steps = 0
    /\ image_buffer = <<>>
    /\ callbacks = NoCallbacks
    /\ led_state = "None"
    /\ led_age = 0
    /\ led_sent = <<>>
    /\ wire = <<>>
    /\ owed = 0
    /\ called = <<>>

ThreadsIdle ==
    /\ tpc = [t \in Threads |-> "idle"]
    /\ op = [t \in Threads |-> "none"]
    /\ polled = NoLine
    /\ line = [t \in Threads |-> NoLine]
    /\ elapsed = [t \in Threads |-> 0]
    /\ timeout = [t \in Threads |-> 0]
    /\ full_refresh = [t \in Threads |-> TRUE]
    /\ buffer_data = [t \in Threads |-> FALSE]
    /\ sent = [t \in Threads |-> <<>>]
    /\ ret = [t \in Threads |-> "none"]
    /\ exc = [t \in Threads |-> "none"]
    /\ slept = [t \in Threads |-> 0]

\* the value None of active_window, kept apart from every window title
NoTitle == <<"<None>">>

\* the rule list of controller.py 46-52: Zoom, Gimp, fallback; a window rule
\* carries the source of its regular expression
ModesList ==
    << [mode |-> "ModeZoom", activeWindow |-> ".*Zoom"],
       [mode |-> "ModeGimp", activeWindow |-> "^gimp.*"],
       [mode |-> "ModeFallback"] >>

OrchIdle ==
    /\ mpc = "load"
    /\ ctx = "none"
    /\ ports = <<>>
    /\ portIdx = 0
    /\ modes = ModesList
    /\ current_mode = "None"
    /\ poll_interval = 0
    /\ active_window = NoTitle
    /\ processes = {}
    /\ checkedOnce = FALSE

\* no mode check has been made in this tick; calls: the calls the mode check
\* made, in order; table: the handler table when activate was called; polls:
\* the modes whose poll the tick has called; spent, sleep: the time the tick
\* that has just ended took before its sleep, and the length of that sleep
NoCheck ==
    [checked |-> FALSE, window |-> NoTitle, procs |-> {}, chosen |-> "none",
     calls |-> <<>>, table |-> NoCallbacks, polls |-> <<>>, spent |-> 0, sleep |-> 0]

EnvInit ==
    /\ rx = <<>>
    /\ returned = <<>>
    /\ payload = 0
    /\ activated = "None"
    /\ late = FALSE
    /\ connectOk = FALSE
    /\ lastConnect = "none"
    /\ nAttempts = 0
    /\ nTicks = 0
    /\ nLines = 0
    /\ nOps = [t \in Threads |-> 0]
    /\ sel = NoCheck

(***************************************************************************)
(* The accessory: it sends a line, terminated by CR LF.                    *)
(***************************************************************************)
HandshakeWaiting(t) == tpc[t] \in {"ri_hdr", "ri_info"}

\* the accessory sends "ok" only to acknowledge a refresh command it has
\* received, one "ok" for each, in the order of the commands
Acknowledge(l) ==
    /\ l = OkLine => owed > 0
    /\ owed' = IF l = OkLine THEN owed - 1 ELSE owed

\* (rx keeps the lines sent, for the statements about the handshake)
Arrive(l) ==
    /\ ser # "None"
    /\ nLines < MaxLines
    /\ nLines' = nLines + 1
    /\ wire' = wire \o l \o <<CR, LF>>
    /\ rx' = Append(rx, l)
    /\ late' = (late \/ \E t \in Threads : HandshakeWaiting(t) /\ elapsed[t] >= timeout[t])
    /\ UNCHANGED <<ser, inbuffer, returned, payload, activated, connectOk, lastConnect, nAttempts, nTicks, nOps, sel>>
    /\ UNCHANGED <<capVars, ledVars, owed, thrVars, devVars, orchVars>>

ArriveQuiet(l) ==
    /\ ser # "None"
    /\ nLines < MaxThreadLines
    /\ Acknowledge(l)
    /\ nLines' = nLines + 1
    /\ wire' = wire \o l \o <<CR, LF>>
    /\ UNCHANGED <<ser, inbuffer, rx, returned, payload, activated, late, connectOk, lastConnect, nAttempts, nTicks, nOps, sel>>
    /\ UNCHANGED <<capVars, ledVars, thrVars, devVars, orchVars>>

(***************************************************************************)
(* Callers on several threads: the main thread and a collaborator's        *)
(* callback thread each call Device methods on a connected device.         *)
(***************************************************************************)
ThreadLines == {HeaderLine, DoneLine, OkLine}
Timeouts == 0..MaxTimeout
ThreadTimeouts == 0..MaxThreadTimeout

\* thread t calls a Device method: its name, its first position, its arguments
CallWith(t, name, entry, fr, to, bd) ==
    /\ tpc' = [tpc EXCEPT ![t] = entry]
    /\ op' = [op EXCEPT ![t] = name]
    /\ timeout' = [timeout EXCEPT ![t] = to]
    /\ full_refresh' = [full_refresh EXCEPT ![t] = fr]
    /\ buffer_data' = [buffer_data EXCEPT ![t] = bd]
    /\ ret' = [ret EXCEPT ![t] = "none"]
    /\ exc' = [exc EXCEPT ![t] = "none"]
    /\ sent' = [sent EXCEPT ![t] = <<>>]
    /\ UNCHANGED <<lock, line, elapsed, slept, polled>>
\* the call with full_refresh left at its default
Call(t, name, entry, to, bd) == CallWith(t, name, entry, TRUE, to, bd)

ThreadCall(t, name, entry, to, bd) ==
    /\ tpc[t] \in {"idle", "ret"}
    /\ nOps[t] < MaxOps
    /\ nOps' = [nOps EXCEPT ![t] = @ + 1]
    /\ Call(t, name, entry, to, bd)
    /\ UNCHANGED <<rx, returned, payload, activated, late, connectOk, lastConnect, nAttempts, nTicks, nLines, sel>>
    /\ UNCHANGED <<capVars, ledVars, owed, linkVars, devVars, orchVars>>

CallRequestInfo(t) == \E to \in ThreadTimeouts : ThreadCall(t, "request_info", "ri_lock", to, FALSE)
CallUpdateDisplay(t) == \E to \in ThreadTimeouts, bd \in BOOLEAN : ThreadCall(t, "update_display", "ud_lock", to, bd)
CallPoll(t) == ThreadCall(t, "poll", "pl_lock", 0, FALSE)

\* a port name
Ports == {"p1", "p2"}

InitThreads ==
    /\ ser = "p1"
    /\ DeviceInit /\ ThreadsIdle /\ OrchIdle /\ EnvInit
NextThreads ==
    \/ \E t \in Threads : DeviceStep(t)
    \/ \E t \in Threads : CallRequestInfo(t) \/ CallUpdateDisplay(t) \/ CallPoll(t)
    \/ \E l \in ThreadLines : ArriveQuiet(l)
SpecThreads == InitThreads /\ [][NextThreads]_vars

(***************************************************************************)
(* C1.  The read path is mutually exclusive: at most one exchange          *)
(* (request_info, update_display) is active at any time, and while one is  *)
(* active no other thread is at the read of Device.poll's drain.           *)
(***************************************************************************)
C1_ReadPathExclusive ==
    /\ Cardinality({t \in Threads : InExchange(t)}) <= 1
    /\ \A t \in Threads : InDrain(t) => \A u \in Threads \ {t} : ~InExchange(u)

\* an exchange is active, has slept, and another thread is waiting for the lock
C1_Witness ==
    \E t \in Threads, u \in Threads :
        /\ t # u
        /\ InExchange(t) /\ slept[t] > 0
        /\ tpc[u] \in {"pl_lock", "ud_lock", "ri_lock"}

(***************************************************************************)
(* The dispatcher on its own: callbacks are registered and cleared, the    *)
(* accessory sends one line over a small alphabet, the main thread polls.  *)
(***************************************************************************)
LineChars == {JOG, "-", "+", "1", "p"}
RECURSIVE LinesUpTo(_)
LinesUpTo(n) ==
    IF n = 0 THEN {<<>>}
    ELSE LinesUpTo(n - 1) \cup
         {Append(l, c) : l \in {x \in LinesUpTo(n - 1) : Len(x) = n - 1}, c \in LineChars}
KeyLines == LinesUpTo(MaxLineLen)
DispatchCodes == {<<JOG>>, JOG_PRESS, JOG_CCW}
Handlers == {"cbA", "cbB"}

CallerIdle(t) == tpc[t] = "idle"

\* the caller takes poll's result and goes on
DispDone ==
    /\ tpc["main"] = "ret"
    /\ tpc' = [tpc EXCEPT !["main"] = "idle"]
    /\ ret' = [ret EXCEPT !["main"] = "none"]
    /\ exc' = [exc EXCEPT !["main"] = "none"]
    /\ polled' = NoLine
    /\ called' = <<>>
    /\ sent' = [sent EXCEPT !["main"] = <<>>]
    /\ UNCHANGED <<lock, op, line, elapsed, timeout, full_refresh, buffer_data, slept>>
    /\ UNCHANGED <<image_buffer, callbacks, capVars, ledVars, owed, linkVars, orchVars, envVars>>

DispRegister(cb, key) ==
    /\ CallerIdle("main")
    /\ callbacks' = register_callback(callbacks, cb, key)
    /\ UNCHANGED thrVars
    /\ UNCHANGED <<image_buffer, called, capVars, ledVars, owed, linkVars, orchVars, envVars>>

DispClear(key) ==
    /\ CallerIdle("main")
    /\ key \in DOMAIN callbacks
    /\ callbacks' = clear_callback(callbacks, key)
    /\ UNCHANGED thrVars
    /\ UNCHANGED <<image_buffer, called, capVars, ledVars, owed, linkVars, orchVars, envVars>>

DispClearAll ==
    /\ CallerIdle("main")
    /\ callbacks' = NoCallbacks
    /\ callbacks # NoCallbacks
    /\ UNCHANGED thrVars
    /\ UNCHANGED <<image_buffer, called, capVars, ledVars, owed, linkVars, orchVars, envVars>>

DispArrive(l) ==
    /\ CallerIdle("main")
    /\ wire = <<>> /\ inbuffer = <<>>
    /\ wire' = l \o <<CR, LF>>
    /\ UNCHANGED <<ser, inbuffer, capVars, ledVars, owed, thrVars, devVars, orchVars, envVars>>

DispPoll ==
    /\ CallerIdle("main")
    /\ Call("main", "poll", "pl_lock", 0, FALSE)
    /\ UNCHANGED <<capVars, ledVars, owed, linkVars, devVars, orchVars, envVars>>

InitDispatch ==
    /\ ser = "p1"
    /\ DeviceInit /\ ThreadsIdle /\ OrchIdle /\ EnvInit
NextDispatch ==
    \/ \E cb \in Handlers, key \in DispatchCodes : DispRegister(cb, key)
    \/ \E key \in DispatchCodes : DispClear(key)
    \/ DispClearAll
    \/ \E l \in KeyLines : DispArrive(l)
    \/ DispPoll
    \/ DispDone
    \/ PollAcquire("main") \/ PollRead("main") \/ PollDispatch("main")
SpecDispatch == InitDispatch /\ [][NextDispatch]_vars

\* Device.poll has ended on thread "main" after reading a line
Dispatched == tpc["main"] = "ret" /\ op["main"] = "poll" /\ polled # NoLine

\* a jog line: the jog code, an optional '-', one or more decimal digits
JogLine(l) ==
    /\ Len(l) >= 2 /\ l[1] = JOG
    /\ \/ IsDecimal(Tail(l))
       \/ l[2] = "-" /\ IsDecimal(Tail(Tail(l)))
\* the same with the sign being '+' or '-'
SignedJogLine(l) ==
    /\ Len(l) >= 2 /\ l[1] = JOG
    /\ \/ IsDecimal(Tail(l))
       \/ l[2] \in {"+", "-"} /\ IsDecimal(Tail(Tail(l)))
DiscreteCodes == KeyCodes \ {<<JOG>>}

(***************************************************************************)
(* C2.  For every line a dispatcher drain reads: when the whole line       *)
(* equals a registered discrete key code, exactly that code's handler is   *)
(* called, once, with no arguments, and no other handler is called; when   *)
(* the line equals no registered code and is no jog line, no handler is    *)
(* called.                                                                 *)
(***************************************************************************)
C2_DiscreteDispatch ==
    Dispatched =>
        /\ (polled \in DOMAIN callbacks /\ polled \in DiscreteCodes)
               => /\ ret["main"] = "None"
                  /\ called = <<[code |-> polled, handler |-> callbacks[polled],
                                 args |-> <<>>]>>
        /\ (polled \notin DOMAIN callbacks /\ ~JogLine(polled)) => called = <<>>

\* a registered discrete code that begins with the jog code has been dispatched
C2_Witness ==
    /\ Dispatched
    /\ polled = JOG_CCW /\ JOG_CCW \in DOMAIN callbacks /\ <<JOG>> \in DOMAIN callbacks
    /\ Len(called) = 1

(***************************************************************************)
(* C3.  For every line made of the jog code, an optional sign ('+' or '-') *)
(* and one or more decimal digits, the registered jog handler is called    *)
(* exactly once with that integer; a line that begins with the jog code    *)
(* and has any other suffix is matched as a discrete code and, when no     *)
(* registered code equals it, dropped with no handler call.                *)
(***************************************************************************)
C3_JogDispatch ==
    Dispatched =>
        /\ (SignedJogLine(polled) /\ <<JOG>> \in DOMAIN callbacks)
               => called = <<[code |-> <<JOG>>, handler |-> callbacks[<<JOG>>],
                              args |-> <<IntOf(Tail(polled))>>]>>
        /\ (Len(polled) >= 1 /\ polled[1] = JOG /\ ~SignedJogLine(polled))
               => /\ ret["main"] = "None"
                  /\ polled \notin DOMAIN callbacks => called = <<>>

(***************************************************************************)
(* C4.  Unrecognized lines are never fatal: for every line, the empty line *)
(* and the jog code alone included, that is neither a registered discrete  *)
(* code nor a jog line, Device.poll returns normally and calls no handler. *)
(***************************************************************************)
C4_NoiseTolerated ==
    (Dispatched /\ ~JogLine(polled) /\ polled \notin (DOMAIN callbacks) \cap DiscreteCodes)
        => ret["main"] = "None" /\ called = <<>>

(***************************************************************************)
(* The handshake on its own: one request_info on a fresh, connected        *)
(* Device, with every timeout of Timeouts, while the accessory sends up to *)
(* MaxLines lines at any moment before, during and after the request.      *)
(***************************************************************************)
NoiseLine == <<"x">>
NLed16 == PfxNLed \o <<"1", "6">>
DispW200 == PfxDispW \o <<"2", "0", "0">>
Test1 == PfxTest \o <<"1">>
HandshakeLines == {NoiseLine, HeaderLine, DoneLine, NLed16, DispW200, Test1}

HsCall(to) ==
    /\ tpc["main"] = "idle"
    /\ Call("main", "request_info", "ri_lock", to, FALSE)
    /\ UNCHANGED <<capVars, ledVars, owed, linkVars, devVars, orchVars, envVars>>

\* request_info has ended on thread "main"
HsDone == tpc["main"] = "ret" /\ op["main"] = "request_info"

\* the accessory sends a line: before the request is made, or while the
\* handshake waits
HsArrive(l) == (tpc["main"] = "idle" \/ HandshakeWaiting("main")) /\ Arrive(l)

InitHandshake ==
    /\ ser = "p1"
    /\ DeviceInit /\ ThreadsIdle /\ OrchIdle /\ EnvInit
NextHandshake ==
    \/ \E to \in Timeouts : HsCall(to)
    \/ RiAcquire("main") \/ RiSend("main") \/ RiHeader("main") \/ RiInfo("main")
    \/ \E l \in HandshakeLines : HsArrive(l)
SpecHandshake == InitHandshake /\ [][NextHandshake]_vars

\* a recognized info line carries a value the parser accepts, any other line
\* is unrecognized
KeyPrefixes == {PfxNLed, PfxDispW, PfxDispH, PfxRot}
WellFormedInfo(l) ==
    /\ StartsWith(l, PfxTest) => Len(l) > Len(PfxTest)
    /\ \A p \in KeyPrefixes : StartsWith(l, p) => IsDecimal(Slice(l, Len(p)))

\* position of the first header line of s, of the first Done after it (0: none)
HeaderPos(s) ==
    IF \E i \in 1..Len(s) : s[i] = HeaderLine
    THEN CHOOSE i \in 1..Len(s) : s[i] = HeaderLine /\ \A j \in 1..(i - 1) : s[j] # HeaderLine
    ELSE 0
DonePos(s) ==
    IF HeaderPos(s) > 0 /\ \E i \in (HeaderPos(s) + 1)..Len(s) : s[i] = DoneLine
    THEN CHOOSE i \in (HeaderPos(s) + 1)..Len(s) :
             s[i] = DoneLine /\ \A j \in (HeaderPos(s) + 1)..(i - 1) : s[j] # DoneLine
    ELSE 0
\* the lines between the header and Done
InfoLines(s) == SubSeq(s, HeaderPos(s) + 1, DonePos(s) - 1)
\* noise, header, well-formed recognized and unrecognized lines, Done
GoodStream(s) ==
    /\ DonePos(s) > 0
    /\ \A i \in 1..Len(InfoLines(s)) : WellFormedInfo(InfoLines(s)[i])

\* the value of the last line of s that starts with prefix p, d when there is none
LastWith(s, p) ==
    IF \E i \in 1..Len(s) : StartsWith(s[i], p)
    THEN CHOOSE i \in 1..Len(s) : StartsWith(s[i], p) /\ \A j \in (i + 1)..Len(s) : ~StartsWith(s[j], p)
    ELSE 0
ValueOf(s, p, d) ==
    IF LastWith(s, p) = 0 THEN d ELSE DecVal(Slice(s[LastWith(s, p)], Len(p)))

(***************************************************************************)
(* C5.  Handshake success: when the lines the accessory sent are noise     *)
(* lines, the header, well-formed recognized lines and unrecognized lines, *)
(* then Done, and every line arrived before the handshake budget was used  *)
(* up, request_info returns True and each Capability equals the value of   *)
(* the last recognized line for it after the header -- and is unchanged    *)
(* (still the value of Device()) when there is no such line, whatever the  *)
(* noise before the header said.                                           *)
(***************************************************************************)
C5_HandshakeSuccess ==
    (HsDone /\ GoodStream(rx) /\ ~late) =>
        /\ ret["main"] = "True"
        /\ num_of_leds = ValueOf(InfoLines(rx), PfxNLed, 0)
        /\ display_width = ValueOf(InfoLines(rx), PfxDispW, 0)
        /\ display_height = ValueOf(InfoLines(rx), PfxDispH, 0)
        /\ rotation_circle_steps = ValueOf(InfoLines(rx), PfxRot, 0)
        /\ testmode = (LastWith(InfoLines(rx), PfxTest) # 0)

\* a handshake succeeded on noise that looks like an info line, the header,
\* a recognized line and Done
C5_Witness ==
    /\ HsDone /\ ~late
    /\ rx = <<DispW200, HeaderLine, NLed16, DoneLine>>
    /\ ret["main"] = "True" /\ num_of_leds = 16 /\ display_width = 0

(***************************************************************************)
(* The orchestrator (controller.py): mode selection.                       *)
(***************************************************************************)
\* window titles the foreground-window query reports, as lists of the words
\* the two patterns look for
Titles == {<<"Zoom">>, <<"gimp">>, <<"gimp", "Zoom">>, <<"x">>}
WindowSamples == Titles \cup {NoTitle}
ProcSamples == {{}, {"obs"}}

\* re.compile(pattern).match(title) is not None
ReMatch(pattern, title) ==
    CASE pattern = ".*Zoom" -> \E i \in 1..Len(title) : title[i] = "Zoom"
      [] pattern = "^gimp.*" -> Len(title) > 0 /\ title[1] = "gimp"
      [] OTHER -> FALSE

HasKey(rule, k) == k \in DOMAIN rule
ProcessHit(rule, procs) == HasKey(rule, "process") /\ rule["process"] \in procs

\* if_matching_mode (lines 70-73); pattern.match(None) raises TypeError
IfMatchingRaises(rule, procs, window) ==
    /\ ~ProcessHit(rule, procs)
    /\ HasKey(rule, "activeWindow")
    /\ window = NoTitle
if_matching_mode(rule, procs, window) ==
    \/ ProcessHit(rule, procs)
    \/ HasKey(rule, "activeWindow") /\ ReMatch(rule["activeWindow"], window)
    \/ ~(HasKey(rule, "process") \/ HasKey(rule, "activeWindow"))

\* line 90: list(filter(if_matching_mode, modes))[0] -- filter evaluates the
\* predicate of every rule
Matching(rules, procs, window) ==
    {i \in 1..Len(rules) : if_matching_mode(rules[i], procs, window)}
FirstMatching(rules, procs, window) ==
    IF \E i \in 1..Len(rules) : IfMatchingRaises(rules[i], procs, window) THEN "TypeError"
    ELSE IF Matching(rules, procs, window) = {} THEN "IndexError"
    ELSE rules[CHOOSE i \in Matching(rules, procs, window) :
                   \A j \in Matching(rules, procs, window) : i <= j]["mode"]

(***************************************************************************)
(* The modes (modes.py) as far as the orchestrator and the Device see      *)
(* them.                                                                   *)
(***************************************************************************)
\* ModeFallback is built without its mqtt argument (controller.py 51), so
\* "self.mqtt.get_lights" (modes.py 302) raises AttributeError in activate
ActivateRaises(m) == m = "ModeFallback"
\* the callback table after activate's registrations: ModeGimp registers its
\* jog-press handler and clears the jog callback (modes.py 232-249), ModeZoom
\* registers nothing
Activated(cbs, m) ==
    IF m = "ModeGimp"
    THEN clear_callback(register_callback(cbs, "toggle_jog_function", JOG_PRESS), <<JOG>>)
    ELSE cbs
\* the regions (named by their slot) activate sends, in order, up to its
\* update_display or to the statement that raises
ModeRegions(m) ==
    CASE m = "ModeZoom" -> <<"title", "2", "3", "4", "5", "6", "7", "8", "9">>
      [] m = "ModeGimp" -> <<"title", "2", "3", "4", "5", "6", "7", "8", "9", "1">>
      [] m = "ModeFallback" -> <<"title", "2", "3", "6", "7", "5", "9">>
\* "return False" of ModeBase.poll: no polling
NoPoll == -1
\* ModeBase.poll returns False, ModeFallback.poll returns 10
ModePoll(m) == IF m = "ModeFallback" THEN 10 ELSE NoPoll
\* the handlers that end with device.update_display()
UpdatesDisplay(h) == h = "toggle_jog_function"

(***************************************************************************)
(* work() (controller.py 58-121).                                          *)
(***************************************************************************)
WorkPcs == {"tick", "activating", "polling", "handler"}
InWork == mpc \in WorkPcs

\* the locals of work() at its entry (lines 62-68)
EnterWork(c) ==
    /\ mpc' = "tick"
    /\ ctx' = c
    /\ current_mode' = "None"
    /\ poll_interval' = 0
    /\ active_window' = NoTitle
    /\ processes' = {}
    /\ checkedOnce' = FALSE
    /\ sel' = NoCheck

\* the main thread is outside every Device method
MainReset ==
    /\ tpc' = [tpc EXCEPT !["main"] = "idle"]
    /\ ret' = [ret EXCEPT !["main"] = "none"]
    /\ exc' = [exc EXCEPT !["main"] = "none"]
    /\ lock' = IF lock = "main" THEN "free" ELSE lock
    /\ line' = [line EXCEPT !["main"] = NoLine]
    /\ elapsed' = [elapsed EXCEPT !["main"] = 0]
    /\ slept' = [slept EXCEPT !["main"] = 0]
    /\ timeout' = [timeout EXCEPT !["main"] = 0]
    /\ full_refresh' = [full_refresh EXCEPT !["main"] = TRUE]
    /\ buffer_data' = [buffer_data EXCEPT !["main"] = FALSE]
    /\ sent' = [sent EXCEPT !["main"] = <<>>]
    /\ polled' = NoLine
    /\ UNCHANGED op

\* work() has ended and its locals with it
WorkLocalsEnd ==
    /\ current_mode' = "None"
    /\ poll_interval' = 0
    /\ active_window' = NoTitle
    /\ processes' = {}
    /\ checkedOnce' = FALSE

\* an exception leaves work(): at module level (line 152) nothing catches it
\* and the process ends; inside try_using_port the except clauses return
\* False (lines 136-146) and main's for loop goes on to the next port
WorkRaises ==
    /\ mpc' = IF ctx = "module" THEN "crashed" ELSE "for_port"
    /\ portIdx' = IF ctx = "module" THEN portIdx ELSE portIdx + 1
    /\ connectOk' = FALSE
    /\ WorkLocalsEnd
    /\ UNCHANGED <<ctx, ports, modes>>

\* line 105: "poll_interval is not False and now - last_poll > poll_interval
\* >= 0" (an interval of 0 has always passed, a positive one when the
\* environment says so)
PollDueAlways(interval, due) == TRUE
PollDueStrict(interval, due) == interval # NoPoll /\ interval >= 0 /\ due
PollDue(interval, due) ==
    interval # NoPoll /\ interval >= 0 /\ (interval = 0 \/ due)

\* lines 105-107: the mode's poll when it is due
PollStage(due) ==
    IF PollDue(poll_interval, due) THEN ModePoll(current_mode) ELSE poll_interval

\* lines 92-101: the calls of a mode check that selects mode m while mode old
\* is current; on a closed link the first command written raises
\* (send_led_animation after a deactivate, else activate's first send)
ModeCheckCallsNoTeardown(old, m, closed) ==
    IF m = old THEN <<>> ELSE <<[call |-> "activate", mode |-> m]>>
ModeCheckCalls(old, m, closed) ==
    IF m = old THEN <<>>
    ELSE IF old = "None" THEN <<[call |-> "activate", mode |-> m]>>
    ELSE IF closed
    THEN <<[call |-> "deactivate", mode |-> old],
           [call |-> "send_led_animation", mode |-> old]>>
    ELSE <<[call |-> "deactivate", mode |-> old],
           [call |-> "send_led_animation", mode |-> old],
           [call |-> "reset_display", mode |-> old],
           [call |-> "activate", mode |-> m]>>

\* the mode that is active, in the modes' own terms, after the calls of a
\* mode check: an activate makes its mode the active one, a deactivate
\* leaves none
RECURSIVE ModeAfter(_, _)
ModeAfter(act, calls) ==
    IF calls = <<>> THEN act
    ELSE ModeAfter(IF Head(calls).call = "activate" THEN Head(calls).mode
                   ELSE IF Head(calls).call = "deactivate" THEN "None"
                   ELSE act,
                   Tail(calls))

\* what the mode check of a tick comes to: "skip" (no check is due), the
\* exception of the selection, "same" (the selected mode is the current
\* one), "send" (a command is written to a closed link: AttributeError, in
\* send_image after the region has been buffered, device.py 170-173),
\* "activate_raises", or "activate" (activate has reached update_display)
CheckOutcome(doCheck, m) ==
    IF ~doCheck THEN "skip"
    ELSE IF m \in {"TypeError", "IndexError"} THEN m
    ELSE IF m = current_mode THEN "same"
    ELSE IF ser = "None" THEN "send"
    ELSE IF ActivateRaises(m) THEN "activate_raises"
    ELSE "activate"

\* lines 77-112 of one tick, up to the call of update_display at the end of
\* a mode's activate or, without an activation, up to the call of Device.poll
\* (the animate of ModeZoom and ModeGimp is ModeBase's: fade_leds)
TickModeCheck(procs, w, chk, due) ==
    LET doCheck == ~checkedOnce \/ chk
        window == IF doCheck /\ w # NoTitle THEN w ELSE active_window
        m == FirstMatching(modes, procs, window)
        out == CheckOutcome(doCheck, m)
        switched == out \in {"send", "activate_raises", "activate"}
        cleared == IF switched /\ current_mode # "None" THEN NoCallbacks ELSE callbacks
    IN  /\ mpc = "tick"
        /\ nTicks < MaxTicks
        /\ tpc["main"] = "idle"
        /\ sel' = [checked |-> doCheck,
                   window |-> IF doCheck THEN window ELSE NoTitle,
                   procs |-> IF doCheck THEN procs ELSE {},
                   chosen |-> IF doCheck THEN m ELSE "none",
                   calls |-> IF out \in {"same", "send", "activate_raises", "activate"}
                             THEN ModeCheckCalls(current_mode, m, ser = "None")
                             ELSE <<>>,
                   table |-> IF switched THEN cleared ELSE NoCallbacks,
                   polls |-> IF out \in {"skip", "same"} /\ PollDue(poll_interval, due)
                             THEN <<current_mode>> ELSE <<>>,
                   spent |-> 0, sleep |-> 0]
        /\ callbacks' = IF out = "activate" THEN Activated(cleared, m) ELSE cleared
        /\ image_buffer' =
               IF out \in {"activate", "activate_raises"}
               THEN image_buffer \o ModeRegions(m)
               ELSE IF out = "send" /\ current_mode = "None"
               THEN Append(image_buffer, Head(ModeRegions(m)))
               ELSE image_buffer
        /\ called' = <<>>
        /\ IF out \in {"skip", "same"}
           THEN /\ Call("main", "poll", "pl_lock", 0, FALSE)
                /\ mpc' = "polling"
                /\ processes' = procs
                /\ active_window' = window
                /\ checkedOnce' = (checkedOnce \/ out = "same")
                /\ poll_interval' = PollStage(due)
                /\ UNCHANGED <<ctx, ports, portIdx, modes, connectOk, current_mode>>
           ELSE IF out = "activate"
           THEN /\ Call("main", "update_display", "ud_lock", DisplayTimeout, FALSE)
                /\ mpc' = "activating"
                /\ processes' = procs
                /\ active_window' = window
                /\ current_mode' = m
                /\ UNCHANGED <<ctx, ports, portIdx, modes, connectOk, checkedOnce, poll_interval>>
           ELSE /\ WorkRaises
                /\ UNCHANGED thrVars
        /\ IF out \in {"skip", "same"} THEN fade_leds ELSE UNCHANGED ledVars
        /\ activated' = IF out \in {"same", "send", "activate_raises", "activate"}
                         THEN ModeAfter(activated, ModeCheckCalls(current_mode, m, ser = "None"))
                         ELSE activated
        /\ UNCHANGED <<capVars, owed, linkVars, rx, returned, payload, late, lastConnect,
                       nAttempts, nTicks, nOps, nLines>>

\* activate's update_display has ended (its result is not looked at); lines
\* 101-112: the interval is reset, the mode is polled, Device.poll is called
ActivateDone ==
    /\ mpc = "activating"
    /\ tpc["main"] = "ret"
    /\ IF ret["main"] = "raise"
       THEN /\ WorkRaises
            /\ MainReset
            /\ UNCHANGED sel
       ELSE /\ poll_interval' = IF PollDue(0, FALSE) THEN ModePoll(current_mode) ELSE 0
            /\ sel' = [sel EXCEPT !.polls = IF PollDue(0, FALSE) THEN <<current_mode>>
                                             ELSE <<>>]
            /\ checkedOnce' = TRUE
            /\ mpc' = "polling"
            /\ Call("main", "poll", "pl_lock", 0, FALSE)
            /\ UNCHANGED <<ctx, ports, portIdx, modes, connectOk>>
            /\ UNCHANGED <<current_mode, active_window, processes>>
    /\ IF ret["main"] = "raise" THEN UNCHANGED ledVars ELSE fade_leds
    /\ UNCHANGED <<capVars, owed, linkVars, devVars>>
    /\ UNCHANGED <<rx, returned, payload, activated, late, lastConnect, nAttempts, nTicks, nOps, nLines>>

\* 0.0333 s, the frame budget of line 115, in units of 3.33 ms
FrameBudget == 10
\* the time a tick has taken when it comes to line 115: less than the
\* budget, more than the budget
TickSpent == {4, 15}
\* line 115: time.time() - now + 0.0333
time_to_30_fps(spent) == spent + FrameBudget
\* lines 116-117: the sleep that is made
TickSleep(spent) == IF time_to_30_fps(spent) > 0 THEN time_to_30_fps(spent) ELSE 0

\* the tick ends with its sleep (lines 115-117) and the next one begins
EndTick ==
    /\ mpc' = "tick"
    /\ nTicks' = nTicks + 1
    /\ \E spent \in TickSpent :
           sel' = [NoCheck EXCEPT !.spent = spent, !.sleep = TickSleep(spent)]
    /\ called' = <<>>
    /\ MainReset
    /\ UNCHANGED <<ctx, ports, portIdx, modes, connectOk>>
    /\ UNCHANGED <<current_mode, poll_interval, active_window, processes, checkedOnce>>

\* Device.poll has ended: an exception leaves work(); a handler that ends
\* with update_display runs that exchange (after poll's "with" block)
PollDone ==
    /\ mpc = "polling"
    /\ tpc["main"] = "ret"
    /\ IF ret["main"] = "raise"
       THEN /\ WorkRaises
            /\ MainReset
            /\ UNCHANGED <<called, nTicks, sel, image_buffer, callbacks>>
       ELSE IF called # <<>> /\ UpdatesDisplay(called[1].handler)
       THEN /\ mpc' = "handler"
            /\ Call("main", "update_display", "ud_lock", DisplayTimeout, FALSE)
            /\ image_buffer' = Append(image_buffer, "1")
            /\ callbacks' = clear_callback(callbacks, <<JOG>>)
            /\ UNCHANGED <<ctx, ports, portIdx, modes, connectOk, called, nTicks, sel>>
            /\ UNCHANGED <<current_mode, poll_interval, active_window, processes, checkedOnce>>
       ELSE /\ EndTick
            /\ UNCHANGED <<image_buffer, callbacks>>
    /\ UNCHANGED <<capVars, ledVars, owed, linkVars>>
    /\ UNCHANGED <<rx, returned, payload, activated, late, lastConnect, nAttempts, nOps, nLines>>

\* the handler's update_display has ended (its result is not looked at)
HandlerDone ==
    /\ mpc = "handler"
    /\ tpc["main"] = "ret"
    /\ IF ret["main"] = "raise"
       THEN /\ WorkRaises
            /\ MainReset
            /\ UNCHANGED <<called, nTicks, sel>>
       ELSE EndTick
    /\ UNCHANGED <<capVars, ledVars, owed, linkVars, image_buffer, callbacks>>
    /\ UNCHANGED <<rx, returned, payload, activated, late, lastConnect, nAttempts, nOps, nLines>>

\* Ctrl-C inside work(), taken between two ticks (where the loop sleeps and
\* makes its system queries): the except clause of line 119 ends work(); at module
\* level main() is then called (line 179), inside try_using_port the link is
\* disconnected and True is returned, which ends main's for loop (line 171)
InterruptWork ==
    /\ mpc = "tick"
    /\ MainReset
    /\ mpc' = IF ctx = "module" THEN "main_loop" ELSE "backoff"
    /\ ser' = IF ctx = "module" THEN ser ELSE "None"
    /\ wire' = IF ctx = "module" THEN wire ELSE <<>>
    /\ connectOk' = FALSE
    /\ sel' = NoCheck
    /\ called' = <<>>
    /\ WorkLocalsEnd
    /\ UNCHANGED <<ctx, ports, portIdx, modes>>
    /\ UNCHANGED <<capVars, ledVars, owed, inbuffer, image_buffer, callbacks>>
    /\ UNCHANGED <<rx, returned, payload, activated, late, lastConnect, nAttempts, nTicks, nOps, nLines>>

(***************************************************************************)
(* Module start-up, main() and try_using_port (controller.py 129-179),     *)
(* Device.connect and Device.disconnect (device.py 35-53).                 *)
(***************************************************************************)
\* line 152: the module calls work() before main() is defined and before any
\* connect
ModuleWork ==
    /\ mpc = "load"
    /\ EnterWork("module")
    /\ UNCHANGED <<ports, portIdx, modes>>
    /\ UNCHANGED <<capVars, ledVars, owed, linkVars, thrVars, devVars>>
    /\ UNCHANGED <<rx, returned, payload, activated, late, connectOk, lastConnect, nAttempts, nTicks, nOps, nLines>>

\* the lists of matching ports the enumeration of line 163 finds
PortLists == {<<>>, <<"p1">>, <<"p1", "p2">>}

\* lines 159-165: enumerate the matching ports
MainLoop(found) ==
    /\ mpc = "main_loop"
    /\ ports' = found
    /\ portIdx' = 1
    /\ mpc' = "for_port"
    /\ UNCHANGED <<ctx, modes, current_mode, poll_interval, active_window, processes, checkedOnce>>
    /\ UNCHANGED <<capVars, ledVars, owed, linkVars, thrVars, devVars, envVars>>

\* the for loop has run out of ports
EndFor ==
    /\ mpc = "for_port"
    /\ portIdx > Len(ports)
    /\ mpc' = "backoff"
    /\ sel' = NoCheck
    /\ called' = <<>>
    /\ UNCHANGED <<ctx, ports, portIdx, modes, current_mode, poll_interval,
                   active_window, processes, checkedOnce>>
    /\ UNCHANGED <<capVars, ledVars, owed, linkVars, thrVars, image_buffer, callbacks>>
    /\ UNCHANGED <<rx, returned, payload, activated, late, connectOk, lastConnect, nAttempts, nTicks, nOps, nLines>>

\* lines 172-173: sleep 3 s, then enumerate again
Backoff ==
    /\ mpc = "backoff"
    /\ mpc' = "main_loop"
    /\ UNCHANGED <<ctx, ports, portIdx, modes, current_mode, poll_interval,
                   active_window, processes, checkedOnce>>
    /\ UNCHANGED <<capVars, ledVars, owed, linkVars, thrVars, devVars, envVars>>

\* try_using_port(port) up to connect's call of request_info(3): Serial()
\* opens the port, or raises SerialException, which try_using_port catches
TryPort(opens) ==
    /\ mpc = "for_port"
    /\ portIdx <= Len(ports)
    /\ nAttempts < MaxAttempts
    /\ tpc["main"] = "idle"
    /\ nAttempts' = nAttempts + 1
    /\ connectOk' = FALSE
    /\ IF opens
       THEN /\ ser' = ports[portIdx]
            /\ wire' = <<>>
            /\ mpc' = "connect"
            /\ Call("main", "request_info", "ri_lock", ConnectTimeout, FALSE)
            /\ UNCHANGED <<portIdx, lastConnect>>
       ELSE /\ mpc' = "for_port"
            /\ portIdx' = portIdx + 1
            /\ lastConnect' = "error"
            /\ UNCHANGED <<ser, wire, thrVars>>
    /\ UNCHANGED <<ctx, ports, modes, current_mode, poll_interval, active_window,
                   processes, checkedOnce>>
    /\ sel' = NoCheck
    /\ called' = <<>>
    /\ owed' = IF opens THEN 0 ELSE owed
    /\ UNCHANGED <<capVars, ledVars, inbuffer, image_buffer, callbacks, rx, returned, payload, activated, late, nTicks, nOps, nLines>>

\* what connect makes of request_info's result r and of the test-mode flag
\* (device.py 41-48): "timeout" and "testmode" return False, "True" returns True
ConnectOutcomeNoTest(r, tm) == IF r = "True" THEN "True" ELSE "timeout"
ConnectOutcome(r, tm) ==
    IF r # "True" THEN "timeout"
    ELSE IF tm THEN "testmode"
    ELSE "True"
\* connect disconnects only when request_info failed (lines 41-43)
ConnectCloses(o) == o = "timeout"

\* request_info has ended: the rest of connect and of try_using_port
ConnectDone ==
    /\ mpc = "connect"
    /\ tpc["main"] = "ret"
    /\ LET o == IF ret["main"] = "raise" THEN "error"
                ELSE ConnectOutcome(ret["main"], testmode)
       IN  /\ lastConnect' = o
           /\ connectOk' = (o = "True")
           /\ ser' = IF ConnectCloses(o) THEN "None" ELSE ser
           /\ wire' = IF ConnectCloses(o) THEN <<>> ELSE wire
           /\ IF o = "True"
              THEN /\ EnterWork("port")
                   /\ UNCHANGED portIdx
              ELSE /\ mpc' = "for_port"
                   /\ portIdx' = portIdx + 1
                   /\ UNCHANGED <<ctx, current_mode, poll_interval, active_window,
                                  processes, checkedOnce, sel>>
    /\ MainReset
    /\ UNCHANGED <<ports, modes>>
    /\ UNCHANGED <<capVars, ledVars, owed, inbuffer, devVars, rx, returned, payload, activated, late, nAttempts, nTicks, nOps, nLines>>

\* Ctrl-C outside work(), taken in the 3 s sleep: main's except clause ends
\* the program (line 175)
InterruptMain ==
    /\ mpc = "backoff"
    /\ mpc' = "exited"
    /\ MainReset
    /\ UNCHANGED <<ctx, ports, portIdx, modes, current_mode, poll_interval,
                   active_window, processes, checkedOnce>>
    /\ UNCHANGED <<capVars, ledVars, owed, linkVars, devVars, envVars>>

\* the lines the accessory sends while connect runs the handshake, and
\* while work() runs
ConnectLines == {HeaderLine, DoneLine, Test1}
WorkLines == {OkLine, JOG_PRESS, <<>>}

\* the accessory sends a line on the open link; to an exchange that waits it
\* answers before the first sleep has ended or not at all
MainArrive(l) ==
    /\ ser # "None"
    /\ \/ mpc = "connect" /\ l \in ConnectLines
       \/ InWork /\ l \in WorkLines
    /\ nLines < MaxLines
    /\ \A t \in Threads : InExchange(t) => elapsed[t] = 0
    /\ Acknowledge(l)
    /\ nLines' = nLines + 1
    /\ wire' = wire \o l \o <<CR, LF>>
    /\ UNCHANGED <<ser, inbuffer, rx, returned, payload, activated, late, connectOk, lastConnect, nAttempts, nTicks, nOps, sel>>
    /\ UNCHANGED <<capVars, ledVars, thrVars, devVars, orchVars>>

InitMain ==
    /\ ser = "None"
    /\ DeviceInit /\ ThreadsIdle /\ OrchIdle /\ EnvInit
NextMain ==
    \/ ModuleWork
    \/ \E procs \in ProcSamples, w \in WindowSamples, chk \in BOOLEAN, due \in BOOLEAN :
           TickModeCheck(procs, w, chk, due)
    \/ ActivateDone \/ PollDone \/ HandlerDone
    \/ InterruptWork \/ InterruptMain
    \/ \E found \in PortLists : MainLoop(found)
    \/ EndFor \/ Backoff
    \/ \E opens \in BOOLEAN : TryPort(opens)
    \/ ConnectDone
    \/ RiAcquire("main") \/ RiSend("main") \/ RiHeader("main") \/ RiInfo("main")
    \/ UdAcquire("main") \/ UdSend("main") \/ UdWait1("main")
    \/ PollAcquire("main") \/ PollRead("main") \/ PollDispatch("main")
    \/ \E l \in ConnectLines \cup WorkLines : MainArrive(l)
SpecMain == InitMain /\ [][NextMain]_vars

(***************************************************************************)
(* C6.  Handshake timeout: once the time since the info request exceeds    *)
(* the budget -- one budget for both phases -- and the line in hand is not *)
(* the line the handshake waits for (the header in the first phase, Done   *)
(* in the second), the next step of request_info returns False; and when   *)
(* request_info has returned False, connect returns False: the orchestrator*)
(* records a failed connect and goes on to the next port.                  *)
(***************************************************************************)
Awaited(t) ==
    \/ tpc[t] = "ri_hdr" /\ line[t] = HeaderLine
    \/ tpc[t] = "ri_info" /\ line[t] = DoneLine
BudgetUsedUp(t) == HandshakeWaiting(t) /\ slept[t] > timeout[t] /\ ~Awaited(t)

C6_HandshakeTimeout ==
    [][ /\ (BudgetUsedUp("main") /\ thrVars' # thrVars)
            => (tpc'["main"] = "ret" /\ ret'["main"] = "False")
        /\ (mpc = "connect" /\ tpc["main"] = "ret" /\ ret["main"] = "False" /\ mpc' # mpc)
            => (lastConnect' = "timeout" /\ ~connectOk' /\ mpc' = "for_port")
      ]_vars

\* a connect has failed on the timeout of a handshake whose header was read
\* (the accessory sent exactly the header line)
C6_Witness ==
    /\ lastConnect = "timeout" /\ mpc = "for_port" /\ ~connectOk
    /\ nLines = 1 /\ inbuffer = <<>> /\ wire = <<>>

(***************************************************************************)
(* C7.  Unusable firmware: when the handshake has succeeded and the        *)
(* test-firmware flag is set, connect returns False, the for loop of main  *)
(* moves to the next port, and work() never runs on a link whose device    *)
(* is marked as test firmware.                                             *)
(***************************************************************************)
C7_TestFirmwareRefused ==
    [][ /\ (mpc = "connect" /\ tpc["main"] = "ret" /\ ret["main"] = "True" /\ testmode
              /\ mpc' # mpc)
            => (lastConnect' = "testmode" /\ ~connectOk' /\ mpc' = "for_port"
                  /\ portIdx' = portIdx + 1)
        /\ (InWork' /\ ctx' = "port") => (~testmode' /\ lastConnect' = "True")
      ]_vars

\* connect has refused a test-firmware device on the first of two ports and
\* the for loop is at the second
C7_Witness ==
    /\ lastConnect = "testmode" /\ testmode /\ ~connectOk
    /\ mpc = "for_port" /\ ports = <<"p1", "p2">> /\ portIdx = 2

(***************************************************************************)
(* C8.  On any handshake failure the link is disconnected: whenever        *)
(* connect has returned False (timeout or test firmware), Device.ser is    *)
(* None before the next connect attempt.                                   *)
(***************************************************************************)
C8_FailureDisconnects ==
    (lastConnect \in {"timeout", "testmode"} /\ mpc \in {"for_port", "backoff", "main_loop"})
        => ser = "None"

(***************************************************************************)
(* C9.  The tick loop (work) runs only after connect has returned True for *)
(* the current link, and never while the device is disconnected.           *)
(***************************************************************************)
C9_WorkOnlyWhenConnected == InWork => (connectOk /\ ser # "None")

(***************************************************************************)
(* C10.  First-match mode selection: at every mode check the selected mode *)
(* is the mode of the first rule of the list whose predicate (process-name *)
(* membership or window-title pattern) matches, the predicate-less         *)
(* fallback rule matching always; so a mode is always selected.            *)
(***************************************************************************)
RuleMatches(rule, procs, window) ==
    \/ "process" \in DOMAIN rule /\ rule["process"] \in procs
    \/ "activeWindow" \in DOMAIN rule /\ window # NoTitle
         /\ ReMatch(rule["activeWindow"], window)
    \/ DOMAIN rule = {"mode"}
FirstRule(rules, procs, window) ==
    CHOOSE i \in 1..Len(rules) :
        /\ RuleMatches(rules[i], procs, window)
        /\ \A j \in 1..(i - 1) : ~RuleMatches(rules[j], procs, window)

C10_FirstMatch ==
    sel.checked => sel.chosen = modes[FirstRule(modes, sel.procs, sel.window)]["mode"]

(***************************************************************************)
(* C11.  Mode transition lifecycle: at a mode check whose selected mode    *)
(* differs from the current one, the calls are, in this order,             *)
(* deactivate(old), the LED acknowledgment animation, reset_display,       *)
(* activate(new) when a mode was active, and only activate(new) when none  *)
(* was; when the selected mode is the current mode there is no deactivate, *)
(* activate, animation or reset, the handler table and the image buffer    *)
(* are untouched and a poll schedule of "no poll" stays.                   *)
(***************************************************************************)
ModeNames == {"ModeZoom", "ModeGimp", "ModeFallback"}
LifecycleCalls(old, new) ==
    IF old = "None" THEN <<[call |-> "activate", mode |-> new]>>
    ELSE <<[call |-> "deactivate", mode |-> old],
           [call |-> "send_led_animation", mode |-> old],
           [call |-> "reset_display", mode |-> old],
           [call |-> "activate", mode |-> new]>>

C11_TransitionLifecycle ==
    [][ (mpc = "tick" /\ sel'.checked /\ sel'.chosen \in ModeNames) =>
            IF sel'.chosen # current_mode
            THEN sel'.calls = LifecycleCalls(current_mode, sel'.chosen)
            ELSE /\ sel'.calls = <<>>
                 /\ current_mode' = current_mode
                 /\ callbacks' = callbacks
                 /\ image_buffer' = image_buffer
                 /\ (poll_interval = NoPoll => poll_interval' = NoPoll)
      ]_vars

\* a check has switched from ModeZoom to ModeGimp
C11_Witness ==
    /\ mpc = "activating" /\ current_mode = "ModeGimp"
    /\ sel.calls = LifecycleCalls("ModeZoom", "ModeGimp")

(***************************************************************************)
(* C12.  Whenever the orchestrator calls a mode's activate, the handler    *)
(* table holds no handler registered by the mode that was active before:   *)
(* every handler a mode registered has been cleared before the next mode   *)
(* activates.                                                              *)
(***************************************************************************)
\* the mode whose activate registers handler h
RegisteredBy(h) == IF h = "toggle_jog_function" THEN "ModeGimp" ELSE "none"
ActivateCalled == \E i \in 1..Len(sel.calls) : sel.calls[i].call = "activate"

C12_NoStaleHandlers ==
    ActivateCalled =>
        \A k \in DOMAIN sel.table : RegisteredBy(sel.table[k]) \notin ModeNames \ {sel.chosen}

(***************************************************************************)
(* C13.  Poll scheduling: a tick calls the current mode's poll only when   *)
(* the last reported interval is not the no-poll value (and has passed);   *)
(* the value poll returns becomes the next interval; once it is the        *)
(* no-poll value, no tick calls poll and the interval stays until a mode   *)
(* is activated (whose tick polls it at once) or work() ends.              *)
(***************************************************************************)
C13_PollScheduling ==
    [][ /\ (mpc = "tick" /\ mpc' = "polling") =>
              /\ sel'.polls \in {<<>>, <<current_mode>>}
              /\ sel'.polls # <<>> => poll_interval # NoPoll /\ poll_interval >= 0
              /\ sel'.polls # <<>> => poll_interval' = ModePoll(current_mode)
              /\ sel'.polls = <<>> => poll_interval' = poll_interval
        /\ (mpc = "activating" /\ mpc' = "polling") =>
              /\ sel'.polls = <<current_mode>>
              /\ poll_interval' = ModePoll(current_mode)
        /\ (poll_interval = NoPoll /\ poll_interval' # NoPoll) =>
              (current_mode' = "None" /\ (InWork' => mpc' = "tick"))
      ]_vars

\* a tick has left a mode that asked for no polling unpolled, after the tick
\* that activated it had polled it
C13_Witness ==
    /\ mpc = "polling" /\ nTicks = 1
    /\ sel.checked /\ sel.chosen = current_mode
    /\ poll_interval = NoPoll /\ sel.polls = <<>>

(***************************************************************************)
(* The display refresh on its own: on a connected Device the caller sends  *)
(* images (send_image, device.py 164-175) and calls update_display with    *)
(* every combination of full_refresh, buffer_data and a timeout of         *)
(* Timeouts, while the accessory acknowledges, or not, and sends a line    *)
(* that merely begins with "ok".                                           *)
(***************************************************************************)
Regions == {"title", "1"}
OkayLine == <<"o", "k", "a", "y">>
DisplayLines == {OkLine, OkayLine}

\* the writes at which ser.write may raise SerialException (0: at none)
WriteFaults == 0..MaxFaultAt

\* send_image: line 170 buffers the region, lines 173-174 write it.  The
\* f-th write raises SerialException: at the header (send_to_device, line
\* 173) it leaves send_image, at a chunk send_binary_to_device catches and
\* prints it (device.py 75-76), the remaining chunks are not written, and
\* send_image returns True.  exc keeps the exception that was raised.
DpSendImage(r, f) ==
    /\ CallerIdle("main")
    /\ Len(image_buffer) < MaxImages
    /\ image_buffer' = Append(image_buffer, r)
    /\ LET hit == f \in 1..Len(send_image(r))
       IN  /\ sent' = [sent EXCEPT !["main"] =
                          IF hit THEN SubSeq(send_image(r), 1, f - 1) ELSE send_image(r)]
           /\ ret' = [ret EXCEPT !["main"] = IF f = 1 THEN "raise" ELSE "True"]
           /\ exc' = [exc EXCEPT !["main"] = IF hit THEN "SerialException" ELSE "none"]
    /\ tpc' = [tpc EXCEPT !["main"] = "ret"]
    /\ op' = [op EXCEPT !["main"] = "send_image"]
    /\ UNCHANGED <<lock, line, elapsed, timeout, full_refresh, buffer_data, slept, polled>>
    /\ UNCHANGED <<callbacks, called, capVars, ledVars, owed, linkVars, orchVars, envVars>>

DpCall(fr, to, bd) ==
    /\ CallerIdle("main")
    /\ nOps["main"] < MaxOps
    /\ nOps' = [nOps EXCEPT !["main"] = @ + 1]
    /\ CallWith("main", "update_display", "ud_lock", fr, to, bd)
    /\ UNCHANGED <<rx, returned, payload, activated, late, connectOk, lastConnect, nAttempts, nTicks, nLines, sel>>
    /\ UNCHANGED <<capVars, ledVars, owed, linkVars, devVars, orchVars>>

DpArrive(l) ==
    /\ nLines < MaxLines
    /\ Acknowledge(l)
    /\ nLines' = nLines + 1
    /\ wire' = wire \o l \o <<CR, LF>>
    /\ UNCHANGED <<ser, inbuffer, rx, returned, payload, activated, late, connectOk, lastConnect, nAttempts, nTicks, nOps, sel>>
    /\ UNCHANGED <<capVars, ledVars, thrVars, devVars, orchVars>>

InitDisplay ==
    /\ ser = "p1"
    /\ DeviceInit /\ ThreadsIdle /\ OrchIdle /\ EnvInit
NextDisplay ==
    \/ \E r \in Regions, f \in WriteFaults : DpSendImage(r, f)
    \/ \E fr \in BOOLEAN, to \in Timeouts, bd \in BOOLEAN : DpCall(fr, to, bd)
    \/ UdAcquire("main") \/ UdSend("main") \/ UdWait1("main") \/ UdWait2("main")
    \/ \E l \in DisplayLines : DpArrive(l)
    \/ DispDone
SpecDisplay == InitDisplay /\ [][NextDisplay]_vars

\* a step of update_display on thread t
UdStep(t) == op[t] = "update_display" /\ thrVars' # thrVars /\ tpc[t] # "ret"
\* the bitmap of region r cut into consecutive writes of at most 100 bytes
BitmapChunks(r) ==
    [i \in 1..((ImageBytes(r) + 99) \div 100) |->
        [cmd |-> "binary", arg |-> r, from |-> 100 * (i - 1),
         n |-> IF 100 * i <= ImageBytes(r) THEN 100 ELSE ImageBytes(r) - 100 * (i - 1)]]
\* the header and the chunked bitmap of each region of buf, in the order of buf
RECURSIVE RegionsInOrder(_)
RegionsInOrder(buf) ==
    IF buf = <<>> THEN <<>>
    ELSE <<DisplayCmd(Head(buf))>> \o BitmapChunks(Head(buf)) \o RegionsInOrder(Tail(buf))
OnlyRefreshSent(t) == \A i \in 1..Len(sent[t]) : sent[t][i].cmd = "REFRESH"

(***************************************************************************)
(* C14.  update_display with buffer_data=True is a two-phase exchange:     *)
(* before the first "ok" has been read nothing is resent and the image     *)
(* buffer is untouched; the step that reads it writes every buffered       *)
(* region (display header, then bitmap) in insertion order, then one       *)
(* refresh-off command, and restarts the wait with the same timeout; the   *)
(* second wait returns on "ok", fails once the timeout is exceeded and     *)
(* otherwise goes on waiting.                                              *)
(***************************************************************************)
C14_TwoPhaseResend ==
    [][ UdStep("main") =>
          /\ (tpc["main"] \in {"ud_lock", "ud_send"}
                 \/ (tpc["main"] = "ud_wait1" /\ line["main"] # OkLine))
                => (image_buffer' = image_buffer /\ OnlyRefreshSent("main")'
                      /\ Len(sent'["main"]) <= 1)
          /\ (tpc["main"] = "ud_wait1" /\ line["main"] = OkLine /\ buffer_data["main"])
                => /\ sent'["main"] = sent["main"] \o RegionsInOrder(image_buffer)
                                         \o <<Refresh("OFF")>>
                   /\ tpc'["main"] = "ud_wait2"
                   /\ timeout'["main"] = timeout["main"]
                   /\ elapsed'["main"] = 0
          /\ tpc["main"] = "ud_wait2"
                => /\ sent'["main"] = sent["main"]
                   /\ line["main"] = OkLine
                        => (tpc'["main"] = "ret" /\ ret'["main"] = "None")
                   /\ (line["main"] # OkLine /\ elapsed["main"] > timeout["main"])
                        => (tpc'["main"] = "ret" /\ ret'["main"] = "False")
                   /\ (line["main"] # OkLine /\ elapsed["main"] <= timeout["main"])
                        => tpc'["main"] = "ud_wait2"
      ]_vars

\* two different regions have been resent in the order they were buffered
\* and the exchange waits for the second "ok"
C14_Witness ==
    /\ tpc["main"] = "ud_wait2"
    /\ sent["main"] = <<Refresh("PARTIAL"),
                         DisplayCmd("title"), Bitmap("title", 0, 100),
                         Bitmap("title", 100, 100), Bitmap("title", 200, 50),
                         DisplayCmd("1"), Bitmap("1", 0, 100), Refresh("OFF")>>

(***************************************************************************)
(* C15.  update_display with buffer_data=True and a non-empty image        *)
(* buffer: after the second "ok" the buffer is empty; when the second "ok" *)
(* does not arrive within the timeout, update_display returns False and    *)
(* the image buffer still holds the regions.                               *)
(***************************************************************************)
SecondPhaseEnded ==
    /\ tpc["main"] = "ret" /\ op["main"] = "update_display"
    /\ Len(sent["main"]) > 2
    /\ sent["main"][Len(sent["main"])] = Refresh("OFF")

C15_BufferKeptOnFailure ==
    SecondPhaseEnded =>
        /\ ret["main"] = "None" => image_buffer = <<>>
        /\ ret["main"] # "None" => (ret["main"] = "False" /\ image_buffer # <<>>)

(***************************************************************************)
(* C16.  update_display without resend writes exactly one refresh command, *)
(* full or partial as full_refresh says, and returns False exactly when no *)
(* line equal to "ok" is read within the timeout: a line equal to "ok"     *)
(* ends it without a failure, any other line is skipped, and once the      *)
(* timeout is exceeded it returns False; the link is left open.            *)
(***************************************************************************)
C16_RefreshAwaitsOk ==
    [][ (UdStep("main") /\ ~buffer_data["main"]) =>
          /\ ser' = ser
          /\ tpc["main"] = "ud_send"
                => sent'["main"] = <<Refresh(IF full_refresh["main"] THEN "FULL"
                                             ELSE "PARTIAL")>>
          /\ tpc["main"] = "ud_wait1"
                => /\ sent'["main"] = sent["main"] /\ Len(sent["main"]) = 1
                   /\ line["main"] = OkLine
                        => (tpc'["main"] = "ret" /\ ret'["main"] # "False")
                   /\ (line["main"] # OkLine /\ elapsed["main"] > timeout["main"])
                        => (tpc'["main"] = "ret" /\ ret'["main"] = "False")
                   /\ (line["main"] # OkLine /\ elapsed["main"] <= timeout["main"])
                        => tpc'["main"] = "ud_wait1"
      ]_vars

\* a partial refresh has failed although a line beginning with "ok" came
C16_Witness ==
    /\ tpc["main"] = "ret" /\ op["main"] = "update_display"
    /\ ret["main"] = "False" /\ sent["main"] = <<Refresh("PARTIAL")>>
    /\ nLines = 1 /\ wire = <<>> /\ inbuffer = <<>> /\ ser = "p1"

(***************************************************************************)
(* C17.  A late reply is noise: an "ok" that arrives after its             *)
(* update_display has timed out is never taken as the acknowledgment of a  *)
(* later update_display; when an exchange accepts an "ok", the accessory   *)
(* has acknowledged every refresh command written so far, that exchange's  *)
(* own included, and no further "ok" is waiting unread.                    *)
(***************************************************************************)
Unread == inbuffer \o RemoveCR(Decode(wire))
OkWaiting ==
    \E i \in 1..(Len(Unread) - 2) :
        /\ Unread[i] = "o" /\ Unread[i + 1] = "k" /\ Unread[i + 2] = LF
        /\ (i = 1 \/ Unread[i - 1] = LF)

C17_LateOkIsNoise ==
    \A t \in Threads :
        (tpc[t] \in {"ud_wait1", "ud_wait2"} /\ line[t] = OkLine)
            => (owed = 0 /\ ~OkWaiting)

(***************************************************************************)
(* The fade engine on its own: on a connected Device whose accessory has   *)
(* reported its number of LEDs, set_leds is called with a frame, time      *)
(* passes in steps of 0.05 s, and fade_leds is called at any moment (the   *)
(* tick loop calls it once in each tick, modes.py 51-52).  nTicks counts   *)
(* the calls of fade_leds.                                                 *)
(***************************************************************************)
\* [0xff0000] and [0x010203, 0xffffff]
LedFrames == {<<16711680>>, <<66051, 16777215>>}
LedCounts == {1, 2}

FdSetLeds(leds) ==
    /\ set_leds(leds)
    /\ UNCHANGED <<capVars, owed, linkVars, thrVars, devVars, orchVars, envVars>>

FdPass ==
    /\ led_state # "None"
    /\ led_age < MaxAge
    /\ led_age' = led_age + 1
    /\ UNCHANGED <<led_state, led_sent, capVars, owed, linkVars, thrVars, devVars,
                   orchVars, envVars>>

FdFade ==
    /\ nTicks < MaxFades
    /\ nTicks' = nTicks + 1
    /\ fade_leds
    /\ UNCHANGED <<rx, returned, payload, activated, late, connectOk, lastConnect, nAttempts, nOps, nLines, sel>>
    /\ UNCHANGED <<capVars, owed, linkVars, thrVars, devVars, orchVars>>

InitFade ==
    /\ ser = "p1" /\ inbuffer = <<>> /\ wire = <<>> /\ owed = 0
    /\ lock = "free" /\ testmode = FALSE
    /\ num_of_leds \in LedCounts
    /\ display_width = 0 /\ display_height = 0 /\ rotation_circle_steps = 0
    /\ image_buffer = <<>> /\ callbacks = NoCallbacks /\ called = <<>>
    /\ led_state = "None" /\ led_age = 0 /\ led_sent = <<>>
    /\ ThreadsIdle /\ OrchIdle /\ EnvInit
NextFade ==
    \/ \E leds \in LedFrames : FdSetLeds(leds)
    \/ FdPass
    \/ FdFade
SpecFade == InitFade /\ [][NextFade]_vars

\* a step in which fade_leds is called
FadeCalled == nTicks' # nTicks
\* the 8-bit channel of colour x whose lowest bit weighs unit
Channel(x, unit) == (x \div unit) % 256
Units == {65536, 256, 1}
LastSent == led_sent[Len(led_sent)]

(***************************************************************************)
(* C18.  Hold and clear: a call of fade_leds with no frame stored, or up   *)
(* to 3.0 s after set_leds, sends nothing and changes nothing; a call at   *)
(* 3.5 s or later with a frame stored sends one all-zero frame and clears  *)
(* the stored frame, so that every later call is a no-op until the next    *)
(* set_leds.                                                               *)
(***************************************************************************)
C18_HoldAndClear ==
    [][ FadeCalled =>
          /\ (led_state = "None" \/ led_age * 5 <= 300) => UNCHANGED ledVars
          /\ (led_state # "None" /\ led_age * 5 >= 350)
                => /\ led_state' = "None"
                   /\ led_sent' = Append(led_sent, [k \in 1..num_of_leds |-> 0])
                   /\ led_age' = led_age
      ]_vars

\* held, cleared with one zero frame, and called once more: three calls of
\* fade_leds since the frame was set have sent the zero frame only
C18_Witness ==
    /\ led_state = "None" /\ nTicks = 3 /\ num_of_leds = 2
    /\ led_sent = <<<<66051, 16777215>>, <<0, 0>>>>

(***************************************************************************)
(* C19.  Fade scaling: a call of fade_leds between 3.0 s and 3.5 s after   *)
(* set_leds commands one frame in which each 8-bit channel of each colour  *)
(* is the truncation of the stored channel times p = (3.5 - elapsed) /     *)
(* 0.5, and nothing is carried from one channel into another (0xff0000 at  *)
(* p = 0.5 gives 0x7f0000).                                                *)
(***************************************************************************)
C19_FadeScaling ==
    [][ (FadeCalled /\ led_state # "None" /\ led_age * 5 > 300 /\ led_age * 5 < 350) =>
          /\ Len(led_sent') = Len(led_sent) + 1
          /\ Len(LastSent') = Len(led_state)
          /\ \A k \in 1..Len(led_state) :
                /\ LastSent'[k] \in 0..16777215
                /\ \A unit \in Units :
                      Channel(LastSent'[k], unit)
                        = (Channel(led_state[k], unit) * (350 - led_age * 5)) \div 50
      ]_vars

\* 0xff0000 faded at 3.25 s: 0x7f0000
C19_Witness ==
    /\ led_age = 65 /\ led_sent = <<<<16711680>>, <<8323072>>>>

(***************************************************************************)
(* C20.  fade_leds leaves the stored frame and its timestamp as they are   *)
(* while 0 < p < 1, and of the frames commanded since a set_leds (the set  *)
(* frame, the faded frames, the zero frame) no channel is ever larger than *)
(* in a frame commanded before it.                                         *)
(***************************************************************************)
C20_FadeMonotonic ==
    /\ [][ (FadeCalled /\ led_state # "None" /\ led_age * 5 > 300 /\ led_age * 5 < 350)
             => (led_state' = led_state /\ led_age' = led_age) ]_vars
    /\ [](\A i \in 1..Len(led_sent) : \A j \in i..Len(led_sent) :
            \A k \in (DOMAIN led_sent[i]) \cap (DOMAIN led_sent[j]) : \A unit \in Units :
                Channel(led_sent[j][k], unit) <= Channel(led_sent[i][k], unit))

\* three calls of fade_leds at three moments of the fade have commanded
\* three different frames from the one stored frame
C20_Witness ==
    /\ Len(led_sent) = 4 /\ led_state = <<66051, 16777215>>
    /\ led_sent[2] # led_sent[3] /\ led_sent[3] # led_sent[4]

(***************************************************************************)
(* C21.  An error raised inside a tick of work() entered from              *)
(* try_using_port ends the session with the link closed: when work() is    *)
(* left, whether by an error or by Ctrl-C, Device.disconnect has run and   *)
(* ser is None before the next port is tried and before the backoff.       *)
(***************************************************************************)
C21_ErrorDisconnects ==
    [][ (InWork /\ ~InWork' /\ ctx = "port") => ser' = "None" ]_vars

(***************************************************************************)
(* C22.  The process never ends because of an error: whatever connect or   *)
(* a tick raises is caught and followed by the backoff and a new round of  *)
(* connects; the program ends only in main's handler of Ctrl-C.            *)
(***************************************************************************)
C22_NoExitOnError == mpc # "crashed"

(***************************************************************************)
(* The exits of an exchange: two threads call Device methods on a Device   *)
(* that is connected or not (work() at module level runs on a Device       *)
(* without a link), and the accessory sends the header, "ok", or a "TEST " *)
(* line without its digit, at which request_info raises IndexError.        *)
(***************************************************************************)
LockLines == {HeaderLine, PfxTest, OkLine}

InitLock ==
    /\ ser \in {"None", "p1"}
    /\ DeviceInit /\ ThreadsIdle /\ OrchIdle /\ EnvInit
NextLock ==
    \/ \E t \in Threads : DeviceStep(t)
    \/ \E t \in Threads : CallRequestInfo(t) \/ CallUpdateDisplay(t) \/ CallPoll(t)
    \/ \E l \in LockLines : ArriveQuiet(l)
SpecLock == InitLock /\ [][NextLock]_vars

(***************************************************************************)
(* C23.  An exchange releases the read-path lock on every exit path: when  *)
(* request_info or update_display has returned, with success or with a     *)
(* timeout, or has raised, the thread no longer holds the lock; the lock   *)
(* is held only by a thread inside the "with" block of a Device method, so *)
(* that it is free whenever no thread is inside one.                       *)
(***************************************************************************)
C23_LockReleased ==
    \A t \in Threads :
        /\ (tpc[t] = "ret" /\ op[t] \in {"request_info", "update_display"}) => lock # t
        /\ lock = t => (InExchange(t) \/ InDrain(t))

\* a request_info has raised at a malformed line, and the other thread has
\* since taken the lock for a poll or an exchange of its own
C23_Witness ==
    \E t \in Threads, u \in Threads :
        /\ t # u
        /\ tpc[t] = "ret" /\ op[t] = "request_info" /\ exc[t] = "IndexError"
        /\ lock = u /\ nOps[u] = 2

(***************************************************************************)
(* C24.  Resend round trip: what a send_image whose writes all succeeded   *)
(* has written for a region (header, then the chunks of the bitmap) is     *)
(* what resend_image_data writes for that region, and the resend of the    *)
(* buffer writes, region by region, what send_image writes for it.         *)
(***************************************************************************)
RECURSIVE SendEach(_)
SendEach(buf) == IF buf = <<>> THEN <<>> ELSE send_image(Head(buf)) \o SendEach(Tail(buf))

C28_WriteFailureSurfaces ==
    (tpc["main"] = "ret" /\ op["main"] = "send_image") =>
        /\ exc["main"] # "none" => ret["main"] = "raise"
        /\ ret["main"] = "True"
             => sent["main"] = <<DisplayCmd(image_buffer[Len(image_buffer)])>>
                                 \o BitmapChunks(image_buffer[Len(image_buffer)])

(***************************************************************************)
(* C29.  The image buffer holds at most one region for each slot, the last *)
(* one sent: no two entries of the buffer are for the same slot, so the    *)
(* buffer is never longer than the number of slots.                        *)
(***************************************************************************)
C29_OneRegionPerSlot ==
    /\ \A i \in 1..Len(image_buffer) : \A j \in 1..Len(image_buffer) :
           image_buffer[i] = image_buffer[j] => i = j
    /\ Len(image_buffer) <= Cardinality(Regions)

(***************************************************************************)
(* C25.  A failed foreground-window query is tolerated in every state: a   *)
(* known window title is never replaced by "no title" while work() runs,   *)
(* and a mode check never raises at the evaluation of the rules, also when *)
(* no title has been obtained since the loop started.                      *)
(***************************************************************************)
C25_FailedQueryTolerated ==
    [][ (mpc = "tick" /\ mpc' # "tick")
          => /\ (active_window # NoTitle /\ InWork') => active_window' # NoTitle
             /\ sel'.checked => sel'.chosen \notin {"TypeError", "IndexError"}
      ]_vars

(***************************************************************************)
(* C26.  At the end of each tick the loop sleeps for what is left of the   *)
(* frame budget of 1/30 s, max(0, budget - time spent in the tick): never  *)
(* longer than the budget, and not at all when the tick took the budget or *)
(* more.                                                                   *)
(***************************************************************************)
C26_FrameSleep ==
    [][ nTicks' # nTicks
          => /\ sel'.sleep = (IF sel'.spent < 10 THEN 10 - sel'.spent ELSE 0)
             /\ sel'.sleep <= 10
      ]_vars

(***************************************************************************)
(* C27.  A key-event line that arrives while an exchange waits for its     *)
(* terminator is not consumed by the exchange: no waiting request_info or  *)
(* update_display ever takes from the link a line for which a handler is   *)
(* registered (a registered discrete code, or a jog line while a jog       *)
(* handler is registered); such a line stays for the dispatcher's drain.   *)
(***************************************************************************)
KeyEventFor(l, cbs) ==
    \/ l \in DOMAIN cbs
    \/ JogLine(l) /\ <<JOG>> \in DOMAIN cbs

C27_KeyEventNotConsumed ==
    \A t \in Threads :
        tpc[t] \in {"ri_hdr", "ri_info", "ud_wait1", "ud_wait2"}
            => ~KeyEventFor(line[t], callbacks)

(***************************************************************************)
(* Termination of the exchanges: one caller runs request_info and          *)
(* update_display on a connected Device while the accessory may send lines *)
(* without end (it sends the next line once the last one has been taken    *)
(* from the link), and the clock goes on while an exchange runs, whether   *)
(* the exchange sleeps or reads.  nLines counts the lines up to MaxLines.  *)
(***************************************************************************)
TermLines == {HeaderLine, DoneLine, OkLine, OkayLine}

TmCall ==
    /\ tpc["main"] \in {"idle", "ret"}
    /\ nOps["main"] < MaxOps
    /\ nOps' = [nOps EXCEPT !["main"] = @ + 1]
    /\ \E to \in Timeouts :
          \/ Call("main", "request_info", "ri_lock", to, FALSE)
          \/ \E bd \in BOOLEAN : Call("main", "update_display", "ud_lock", to, bd)
    /\ UNCHANGED <<rx, returned, payload, activated, late, connectOk, lastConnect, nAttempts, nTicks, nLines, sel>>
    /\ UNCHANGED <<capVars, ledVars, owed, linkVars, devVars, orchVars>>

TmArrive(l) ==
    /\ wire = <<>> /\ inbuffer = <<>>
    /\ Acknowledge(l)
    /\ nLines' = IF nLines < MaxLines THEN nLines + 1 ELSE nLines
    /\ wire' = l \o <<CR, LF>>
    /\ UNCHANGED <<ser, inbuffer, rx, returned, payload, activated, late, connectOk, lastConnect, nAttempts, nTicks, nOps, sel>>
    /\ UNCHANGED <<capVars, ledVars, thrVars, devVars, orchVars>>

\* time.time() goes on while the exchange runs (it matters until the
\* timeout is exceeded)
TmClock ==
    /\ InExchange("main")
    /\ elapsed["main"] <= timeout["main"]
    /\ elapsed' = [elapsed EXCEPT !["main"] = @ + 1]
    /\ UNCHANGED <<lock, tpc, op, line, timeout, full_refresh, buffer_data, ret, exc,
                   slept, polled, sent>>
    /\ UNCHANGED <<capVars, ledVars, owed, linkVars, devVars, orchVars, envVars>>

TmStep ==
    \/ RiAcquire("main") \/ RiSend("main") \/ RiHeader("main") \/ RiInfo("main")
    \/ UdAcquire("main") \/ UdSend("main") \/ UdWait1("main") \/ UdWait2("main")

InitTerm ==
    /\ ser = "p1"
    /\ DeviceInit /\ ThreadsIdle /\ OrchIdle /\ EnvInit
NextTerm ==
    \/ TmCall
    \/ TmStep
    \/ TmClock
    \/ \E l \in TermLines : TmArrive(l)
\* the calling thread runs, and time passes
SpecTerm == InitTerm /\ [][NextTerm]_vars /\ WF_vars(TmStep) /\ WF_vars(TmClock)

(***************************************************************************)
(* C30.  Every exchange terminates: whatever the accessory sends, nothing  *)
(* at all or line after line without the awaited one, a request_info or    *)
(* update_display that has been called returns, with success or failure.   *)
(***************************************************************************)
C30_ExchangeTerminates ==
    (tpc["main"] \in {"ri_lock", "ud_lock"} \/ InExchange("main")) ~> (tpc["main"] = "ret")

\* an update_display with resend has failed in its second wait while the
\* accessory went on sending lines
C30_Witness ==
    /\ tpc["main"] = "ret" /\ op["main"] = "update_display" /\ ret["main"] = "False"
    /\ nLines = MaxLines
    /\ Len(sent["main"]) > 0 /\ sent["main"][Len(sent["main"])] = Refresh("OFF")

(***************************************************************************)
(* C31.  The tick that activates a mode polls that mode: once the tick     *)
(* whose mode check ended with an activate has come to Device.poll, the    *)
(* poll of the activated mode has been called in it and the interval is    *)
(* what that poll returned, whatever interval the mode before had left.    *)
(***************************************************************************)
C31_PollOnActivation ==
    (/\ mpc \in {"polling", "handler"}
     /\ sel.calls # <<>>
     /\ sel.calls[Len(sel.calls)].call = "activate")
        => /\ current_mode = sel.calls[Len(sel.calls)].mode
           /\ sel.polls = <<current_mode>>
           /\ poll_interval = ModePoll(current_mode)

\* ModeGimp has been activated in place of a mode that had asked for no
\* polling, and has been polled in the same tick
C31_Witness ==
    /\ mpc = "polling" /\ nTicks > 0
    /\ Len(sel.calls) = 4
    /\ sel.calls[1] = [call |-> "deactivate", mode |-> "ModeZoom"]
    /\ sel.calls[4] = [call |-> "activate", mode |-> "ModeGimp"]
    /\ sel.polls = <<"ModeGimp">>

(***************************************************************************)
(* The line framing on its own: bytes arrive on an open link one at a      *)
(* time, also carriage returns, line feeds and a byte outside ASCII, and   *)
(* read_from_device (device.py 78-88) is called at any moment between.     *)
(* Here rx keeps the bytes that have arrived and returned the lines the    *)
(* reads have returned.                                                    *)
(***************************************************************************)
RdBytes == {"a", "0xA4", CR, LF}

\* a byte arrives in the serial input
RdArrive(b) ==
    /\ Len(rx) < MaxBytes
    /\ wire' = Append(wire, b)
    /\ rx' = Append(rx, b)
    /\ UNCHANGED <<ser, inbuffer, returned, payload, activated, late, connectOk, lastConnect, nAttempts, nTicks,
                   nOps, nLines, sel>>
    /\ UNCHANGED <<capVars, ledVars, owed, thrVars, devVars, orchVars>>

\* one call of read_from_device by the main thread
RdRead ==
    /\ read_from_device("main")
    /\ returned' = IF ReadCmd # NoLine THEN Append(returned, ReadCmd) ELSE returned
    /\ UNCHANGED <<ser, lock, tpc, op, elapsed, timeout, full_refresh, buffer_data, ret, exc,
                   slept, polled, sent>>
    /\ UNCHANGED <<capVars, ledVars, owed, devVars, orchVars>>
    /\ UNCHANGED <<rx, payload, activated, late, connectOk, lastConnect, nAttempts, nTicks, nOps, nLines, sel>>

InitRead ==
    /\ ser = "p1"
    /\ DeviceInit /\ ThreadsIdle /\ OrchIdle /\ EnvInit
NextRead ==
    \/ \E b \in RdBytes : RdArrive(b)
    \/ RdRead
SpecRead == InitRead /\ [][NextRead]_vars

\* the characters of s that are not carriage returns
WithoutCR(s) == SelectSeq(s, LAMBDA c : c # CR)
\* the lines, each followed by a line feed
RECURSIVE JoinLines(_)
JoinLines(ls) == IF ls = <<>> THEN <<>> ELSE Head(ls) \o <<LF>> \o JoinLines(Tail(ls))
\* the characters the program has read off the link: those that have arrived
\* less those still waiting in the serial input
ReadSoFar == SubSeq(rx, 1, Len(rx) - Len(wire))
\* what the buffer holds once the waiting bytes are taken in
Pending == inbuffer \o WithoutCR(Decode(wire))

(***************************************************************************)
(* C32.  read_from_device frames lines without loss or reordering: the     *)
(* lines returned so far, each followed by a line feed, and then the       *)
(* retained buffer are the characters read off the link with the carriage  *)
(* returns removed; a read returns the first complete line when the        *)
(* buffer, with the bytes just read, holds one, and None otherwise,        *)
(* keeping the partial line.                                               *)
(***************************************************************************)
C32_LineFraming ==
    /\ [](JoinLines(returned) \o inbuffer = WithoutCR(Decode(ReadSoFar)))
    /\ [][ rx' = rx =>
             IF HasLF(Pending)
             THEN /\ line'["main"] \o <<LF>> \o inbuffer' = Pending
                  /\ ~HasLF(line'["main"])
                  /\ returned' = Append(returned, line'["main"])
             ELSE /\ line'["main"] = NoLine
                  /\ inbuffer' = Pending
                  /\ returned' = returned
       ]_vars

\* a line was returned whose bytes came in over several reads, with a
\* carriage return and a byte outside ASCII, and the beginning of the next
\* line is kept
C32_Witness ==
    /\ returned = << <<"a", "EUR">> >>
    /\ rx = <<"a", "0xA4", CR, LF, "a">>
    /\ inbuffer = <<"a">> /\ wire = <<>>
    /\ line["main"] = NoLine

(***************************************************************************)
(* The chunked write on its own: send_binary_to_device (device.py 60-76)   *)
(* is called on an open link with data of every length up to MaxPayload,   *)
(* and ser.write raises SerialException at one of its writes or at none.   *)
(* The data is named "data"; sent keeps the writes that were made.         *)
(***************************************************************************)
PayloadLens == 0..MaxPayload

\* the whole call: the writes up to the one that raises, if one does; the
\* except clause of lines 75-76 prints, and the method returns None
WrSend(len, f) ==
    /\ CallerIdle("main")
    /\ payload' = len
    /\ LET writes == WriteChunks("data", len, 0)
           hit == f \in 1..Len(writes)
       IN  /\ sent' = [sent EXCEPT !["main"] =
                          IF hit THEN SubSeq(writes, 1, f - 1) ELSE writes]
           /\ exc' = [exc EXCEPT !["main"] = IF hit THEN "SerialException" ELSE "none"]
    /\ ret' = [ret EXCEPT !["main"] = "None"]
    /\ tpc' = [tpc EXCEPT !["main"] = "ret"]
    /\ op' = [op EXCEPT !["main"] = "send_binary_to_device"]
    /\ UNCHANGED <<lock, line, elapsed, timeout, full_refresh, buffer_data, slept, polled>>
    /\ UNCHANGED <<capVars, ledVars, owed, linkVars, devVars, orchVars>>
    /\ UNCHANGED <<rx, returned, activated, late, connectOk, lastConnect, nAttempts, nTicks, nOps,
                   nLines, sel>>

InitWrite ==
    /\ ser = "p1"
    /\ DeviceInit /\ ThreadsIdle /\ OrchIdle /\ EnvInit
NextWrite == \E len \in PayloadLens, f \in WriteFaults : WrSend(len, f)
SpecWrite == InitWrite /\ [][NextWrite]_vars

(***************************************************************************)
(* C33.  Chunked write: when no write fails, send_binary_to_device makes   *)
(* exactly ceil(L/100) writes for data of L bytes; the i-th write is the   *)
(* slice of the data that begins at byte 100 (i - 1), 100 bytes long       *)
(* except for the last, which has the 1..100 bytes that remain, so that    *)
(* the writes joined are the data and nothing else; for L = 0 there is no  *)
(* write.                                                                  *)
(***************************************************************************)
C33_ChunkedWrite ==
    (op["main"] = "send_binary_to_device" /\ exc["main"] = "none") =>
        LET w == sent["main"]
            k == Len(w)
        IN  /\ k = (payload + 99) \div 100
            /\ payload = 0 => w = <<>>
            /\ \A i \in 1..k :
                  /\ w[i].cmd = "binary" /\ w[i].arg = "data"
                  /\ w[i].from = 100 * (i - 1)
                  /\ w[i].n = IF i < k THEN 100 ELSE payload - 100 * (k - 1)
                  /\ w[i].n \in 1..100

\* data that ends inside its third chunk has been written
C33_Witness ==
    /\ op["main"] = "send_binary_to_device" /\ exc["main"] = "none"
    /\ payload = 250
    /\ sent["main"] = <<Bitmap("data", 0, 100), Bitmap("data", 100, 100),
                        Bitmap("data", 200, 50)>>

(***************************************************************************)
(* The dispatcher drain in the running loop: the main thread calls         *)
(* Device.poll once per tick (controller.py 112) for as long as no poll    *)
(* raises, a handler is registered or not, and the accessory sends a key   *)
(* code, a line no handler is registered for, or an empty line, at any     *)
(* moment, so that several lines can wait.  rx keeps the lines sent.       *)
(***************************************************************************)
DrainLines == {JOG_PRESS, <<"x">>, <<>>}

DrArrive(l) ==
    /\ nLines < MaxDrainLines
    /\ nLines' = nLines + 1
    /\ wire' = wire \o l \o <<CR, LF>>
    /\ rx' = Append(rx, l)
    /\ UNCHANGED <<ser, inbuffer, returned, payload, activated, late, connectOk, lastConnect, nAttempts,
                   nTicks, nOps, sel>>
    /\ UNCHANGED <<capVars, ledVars, owed, thrVars, devVars, orchVars>>

\* the next iteration of the loop; an exception of Device.poll ends work()
DrNextTick ==
    /\ ret["main"] # "raise"
    /\ DispDone

\* the steps of the main thread
DrTick ==
    \/ DispPoll
    \/ PollAcquire("main") \/ PollRead("main") \/ PollDispatch("main")
    \/ DrNextTick

InitDrain ==
    /\ ser = "p1"
    /\ DeviceInit /\ ThreadsIdle /\ OrchIdle /\ EnvInit
NextDrain ==
    \/ DispRegister("cbA", JOG_PRESS)
    \/ \E l \in DrainLines : DrArrive(l)
    \/ DrTick
\* the loop goes on: its sleep is finite and no other thread holds the lock
SpecDrain == InitDrain /\ [][NextDrain]_vars /\ WF_vars(DrTick)

\* the complete lines of s, in order
RECURSIVE SplitLines(_)
SplitLines(s) ==
    IF HasLF(s)
    THEN <<SubSeq(s, 1, FirstLF(s) - 1)>> \o SplitLines(SubSeq(s, FirstLF(s) + 1, Len(s)))
    ELSE <<>>
\* the lines that wait, in the line buffer or still in the serial input
Waiting == SplitLines(Pending)
\* the number of lines taken out so far
Taken == Len(rx) - Len(Waiting)

(***************************************************************************)
(* C34.  A call of Device.poll takes at most one line out of the line      *)
(* buffer, and only in its read; the lines that wait are always the latest *)
(* lines sent, in the order sent, and the read takes the oldest of them;   *)
(* and while the loop goes on polling every line sent is taken in the end. *)
(***************************************************************************)
C34_OneLinePerDrain ==
    /\ [](Waiting = SubSeq(rx, Taken + 1, Len(rx)))
    /\ [][ /\ Len(Waiting') >= Len(Waiting) - 1
           /\ Len(Waiting') < Len(Waiting) =>
                 /\ tpc["main"] = "pl_read" /\ tpc'["main"] = "pl_dispatch"
                 /\ polled' = Head(Waiting) /\ line'["main"] = Head(Waiting)
                 /\ Waiting' = Tail(Waiting)
           /\ (tpc["main"] = "pl_read" /\ Waiting = <<>>) => polled' = NoLine
       ]_vars
    /\ \A k \in 1..MaxDrainLines :
          (Len(rx) >= k) ~> (Taken >= k \/ ret["main"] = "raise")

\* three lines were sent before the first poll; the third tick has read the
\* third of them, the key code, and called its handler
C34_Witness ==
    /\ rx = << <<"x">>, <<"x">>, JOG_PRESS >>
    /\ tpc["main"] = "ret" /\ ret["main"] = "None"
    /\ polled = JOG_PRESS /\ Len(called) = 1
    /\ Waiting = <<>>

(***************************************************************************)
(* C35.  No code path acquires the read-path lock while it holds it: a     *)
(* thread that comes to the "with" statement of request_info,              *)
(* update_display or Device.poll does not hold the lock; Device.poll has   *)
(* left its "with" block when it calls the handlers; and the               *)
(* update_display of the jog-press handler finds the lock free.            *)
(***************************************************************************)
C35_NoReacquire ==
    /\ \A t \in Threads :
          /\ tpc[t] \in {"ri_lock", "ud_lock", "pl_lock"} => lock # t
          /\ tpc[t] = "pl_dispatch" => lock # t
    /\ (mpc = "handler" /\ tpc["main"] = "ud_lock") => lock = "free"

\* the jog was pressed in ModeGimp and the handler's update_display has
\* taken the lock, written its refresh command and returned
C35_Witness ==
    /\ mpc = "handler"
    /\ called # <<>> /\ called[1].handler = "toggle_jog_function"
    /\ tpc["main"] = "ret" /\ op["main"] = "update_display" /\ ret["main"] # "raise"
    /\ sent["main"] = <<Refresh("FULL")>>
    /\ lock = "free"

(***************************************************************************)
(* C36.  Each new connection starts with an empty line buffer: when        *)
(* connect has opened the port and calls request_info, inbuffer is empty.  *)
(***************************************************************************)
C36_FreshLineBuffer ==
    (mpc = "connect" /\ tpc["main"] = "ri_lock") => inbuffer = <<>>

(***************************************************************************)
(* C37.  activate is never called on top of an active mode: whenever a     *)
(* mode check calls activate, either no mode has been activated before in  *)
(* the life of the process, or the check has first called deactivate on    *)
(* the mode activated last -- also when the link was disconnected and      *)
(* connected again in between.                                             *)
(***************************************************************************)
C37_DeactivateBeforeActivate ==
    [][ (mpc = "tick" /\ ActivateCalled') =>
            \/ activated = "None"
            \/ sel'.calls[1] = [call |-> "deactivate", mode |-> activated]
      ]_vars

(***************************************************************************)
(* Connecting again: Device.connect (device.py 35-48) is called on the one *)
(* Device object up to MaxAttempts times, each time on a newly opened      *)
(* port, and the accessory answers each handshake with the header, Done    *)
(* and info lines, one line at a time, or falls silent.  rx keeps the      *)
(* lines sent on the connection in progress.                               *)
(***************************************************************************)
ReconnectLines == {HeaderLine, DoneLine, Test1, NLed16}

\* connect up to its call of request_info(3): a new Serial object, the
\* Device's other fields as they are
RcConnect ==
    /\ tpc["main"] \in {"idle", "ret"}
    /\ nAttempts < MaxAttempts
    /\ nAttempts' = nAttempts + 1
    /\ ser' = "p1"
    /\ wire' = <<>>
    /\ rx' = <<>>
    /\ late' = FALSE
    /\ Call("main", "request_info", "ri_lock", ConnectTimeout, FALSE)
    /\ UNCHANGED <<inbuffer, returned, payload, activated, connectOk, lastConnect, nTicks,
                   nOps, nLines, sel>>
    /\ UNCHANGED <<capVars, ledVars, owed, devVars, orchVars>>

\* the accessory sends its next line once the last one has been read
RcArrive(l) ==
    /\ HandshakeWaiting("main")
    /\ wire = <<>> /\ inbuffer = <<>>
    /\ Arrive(l)

InitReconnect ==
    /\ ser = "None"
    /\ DeviceInit /\ ThreadsIdle /\ OrchIdle /\ EnvInit
NextReconnect ==
    \/ RcConnect
    \/ RiAcquire("main") \/ RiSend("main") \/ RiHeader("main") \/ RiInfo("main")
    \/ \E l \in ReconnectLines : RcArrive(l)
SpecReconnect == InitReconnect /\ [][NextReconnect]_vars

(***************************************************************************)
(* C38.  The Capabilities after a successful handshake are determined by   *)
(* the lines of that handshake alone: each is the value of its last line   *)
(* between the header and Done, and the value of a new Device when the     *)
(* handshake had no line for it -- the test-firmware flag and the LED      *)
(* count of an earlier connection do not persist.                          *)
(***************************************************************************)
C38_CapabilitiesPerHandshake ==
    (HsDone /\ ret["main"] = "True") =>
        /\ testmode = (LastWith(InfoLines(rx), PfxTest) # 0)
        /\ num_of_leds = ValueOf(InfoLines(rx), PfxNLed, 0)
        /\ display_width = 0 /\ display_height = 0 /\ rotation_circle_steps = 0

(***************************************************************************)
(* C39.  request_info never raises, whatever lines arrive: on an open link *)
(* every request_info that has ended has returned True or False.           *)
(***************************************************************************)
C39_HandshakeNeverRaises ==
    \A t \in Threads :
        (tpc[t] = "ret" /\ op[t] = "request_info" /\ ser # "None")
            => ret[t] \in {"True", "False"}

====
